---- MODULE Spec2Model ----
(***************************************************************************)
(* Model of intelino-trainlib-async: the notification bus, the             *)
(* request/response correlation and the connection status of               *)
(* TrainBleDevice (src/intelino/trainlib_async/train_ble_device.py), and   *)
(* the decoding of packets into messages (train_ble_packet.py,             *)
(* message_builder.py).                                                    *)
(*                                                                         *)
(* The bus is an rx Subject: on_next copies the observer list and calls    *)
(* every observer in subscription order, synchronously, in the transport   *)
(* callback; an exception raised by an observer leaves the loop and        *)
(* reaches the transport callback.  send_command_with_response subscribes  *)
(* take_until_with_time(timeout) | first(predicate) with                   *)
(* future.set_result as handler, sends the command and then awaits         *)
(* asyncio.wait_for(future, timeout).  The take_until timer runs on the rx *)
(* TimeoutScheduler (a timer thread) and starts at subscription; the       *)
(* wait_for timer runs on the event loop and starts after the send.        *)
(* Subscribers of the notifications property are attached through          *)
(* subscribe_on/observe_on: they are registered by a scheduled action and  *)
(* receive through their own queue, drained on the event loop.             *)
(*                                                                         *)
(* The connection status is a BehaviorSubject of a bool, False at the      *)
(* start: connect() and disconnect() publish what the driver answered, the *)
(* driver's disconnect callback publishes False.  Subscribers of the       *)
(* connection_status property get the current value when their scheduled   *)
(* subscription runs and pass what they receive through                    *)
(* distinct_until_changed.                                                 *)
(*                                                                         *)
(* Each part has its own specification: Spec (correlator), SpecBus (bus    *)
(* with notifications subscribers), SpecSubscribers (subscribers alone),   *)
(* SpecUnsub (subscribers that dispose), SpecConn (connection status),     *)
(* SpecWrites (the writes stream), SpecStream (decoded notifications),     *)
(* SpecCodec, SpecStrict, SpecEncode, SpecSnap, SpecHex (packets and       *)
(* messages), SpecSteer (steering command), SpecTeam1 and SpecTeam2 (the   *)
(* collision avoidance examples of src/examples/teamwork).                 *)
(***************************************************************************)
EXTENDS Integers, Sequences, FiniteSets, TLC

\* ---- bounds of the model ----
MaxCalls == 2
MaxSubs == 2
MaxPackets == 2
MaxTimeout == 1
MaxDisposals == 2
MaxOps == 2
MaxStatus == 3
MaxPayload == 18
MaxField == 5
MaxLen == 3
MaxBase == 2
MaxText == 3
MaxTrains == 2

\* ---- program constants ----
CmdMac == 66      \* 0x42, train.py get_mac_address
CmdUuid == 67     \* 0x43, train.py get_uuid
CmdVersion == 7   \* 0x07, TrainMsgVersionDetail.command_id
CmdOdometer == 62 \* 0x3E, TrainMsgStatsLifetimeOdometer.command_id
CmdMovement == 183 \* 0xB7, TrainMsgMovement.command_id
CmdEvent == 224   \* 0xE0, TrainMsgEventBase.command_id
CmdOther == 153   \* a command id no message class has
MaxEventId == 11  \* EventId has the members 0x00 .. 0x0A
EVENT_PAYLOAD_OFFSET == 5
SteeringNone == 0     \* SteeringDecision.NONE
SteeringLeft == 1     \* SteeringDecision.LEFT
SteeringRight == 2    \* SteeringDecision.RIGHT
SteeringStraight == 4 \* SteeringDecision.STRAIGHT
OldSteeringLeft == 1   \* _OldSteeringDecision.LEFT
OldSteeringRight == 2  \* _OldSteeringDecision.RIGHT
OldSteeringCenter == 3 \* _OldSteeringDecision.CENTER
CmdSetSteering == 191  \* 0xBF, train.py set_next_split_steering_decision
ColorYellow == 3       \* SnapColorValue.YELLOW
ColorMagenta == 5      \* SnapColorValue.MAGENTA
NoTrain == -1          \* the train_id of a section nobody entered yet
SectionColors == {ColorYellow, ColorMagenta} \* the keys of SharedState.critical_section
TwoTrains == 0..1      \* collision_avoidance_1.py: get_trains(count=2)
SteeringAll == 7       \* SteeringDecision.ALL

Commands == {CmdMac, CmdUuid}
CallIds == 1..MaxCalls
SubIds == {100 + i : i \in 1..MaxSubs}
Timeouts == 1..MaxTimeout

VARIABLES
    published,  \* number of packets the transport delivered; packets are numbered in order
    observers,  \* Subject.observers of __notifications: listener ids in subscription order
    pc,         \* position of each send_command_with_response call
    command,    \* data.command of each call
    future,     \* asyncio.Future of each call: [state, result], the result a packet
    rxTimer,    \* ticks left on the call's take_until_with_time timer, NoTimer when not scheduled
    wfTimer,    \* the call's timeout argument while it sends, then the ticks left on its wait_for
                \* timer; NoTimer when there is none
    skipped,    \* a packet with the call's command id was published while the call was
                \* outstanding and unresolved, and did not resolve it
    setLog,     \* calls in the order their future.set_result succeeded
    sendRaised, \* the transport send of the call raised
    subState,   \* notifications subscribers: "none", "scheduled", "subscribed"
    queue,      \* ScheduledObserver.queue of each subscriber (packet numbers)
    faulted,    \* ScheduledObserver.has_faulted of each subscriber
    received,   \* packets each subscriber's handler was invoked with
    subAt,      \* number of packets published when the subscriber was added to the Subject
    stopped,    \* AutoDetachObserver.is_stopped of each subscriber
    disposals,  \* number of subscription.dispose() calls of each subscriber
    connection_status, \* BehaviorSubject.value of __connection_status
    connecting,    \* number of connect() calls awaiting driver.connect
    disconnecting, \* number of disconnect() calls awaiting driver.disconnect
    statusLog,     \* every value passed to __connection_status.on_next, in order
    lastEvent,     \* the last finished connect()/disconnect() and what it returned, or the disconnect listener
    csState,       \* connection_status subscribers: "none", "scheduled", "subscribed"
    csQueue,       \* ScheduledObserver.queue of each connection_status subscriber
    csKey,         \* distinct_until_changed: has_current_key and current_key
    csDelivered,   \* values each connection_status handler was invoked with
    csAt,          \* Len(statusLog) when the subscriber was added to the BehaviorSubject
    packet,        \* TrainBlePacket.data of the packet being decoded: a sequence of bytes
    decoded,       \* what TrainBlePacket.msg gave for it: the message (class, raw packet, fields), or the exception raised
    call,          \* the last call of a codec function or comparison: its name and arguments
    result,        \* what that call returned, or the exception it raised
    writes,        \* every packet passed to __writes.on_next, in order
    teamwork,      \* examples/teamwork: the shared state, the programs' local states, the event loop and the trains
    lastPub     \* the last Subject.on_next: the observer that raised, the observers of the copied list it never reached

connVars == <<connection_status, connecting, disconnecting, statusLog, lastEvent,
              csState, csQueue, csKey, csDelivered, csAt>>
codecVars == <<packet, decoded, call, result>>

libVars == <<published, observers, pc, command, future, rxTimer,
             wfTimer, skipped, setLog, sendRaised, subState, queue,
             faulted, received, subAt, stopped, disposals, lastPub, connVars, codecVars, writes>>

vars == <<libVars, teamwork>>

callVars == <<pc, command, future, rxTimer, wfTimer,
              skipped, setLog, sendRaised>>
subVars == <<subState, queue, faulted, received, subAt, stopped, disposals>>

\* ---- examples/teamwork: collision avoidance on shared sections ----

\* SectionInfo(SectionState.FREE, -1), the value both programs start with
SectionInfo(s, t) == [state |-> s, train_id |-> t]
FreeSection == SectionInfo("FREE", NoTrain)

\* Message, MessageRequest, MessageResponse: what is the section state (v1),
\* the request or the response (v2)
Message(c, t, what) == [section_color |-> c, train_id |-> t, what |-> what]

\* a coroutine that asyncio.create_task put on the loop's ready queue
Task(kind, t, m) == [kind |-> kind, train |-> t, msg |-> m]

\* the awaited write of drive_at_speed or stop_driving with the assignment
\* that follows the await (NoMessage: nothing follows)
NoMessage == Message(NoTrain, NoTrain, "none")
Write(drive, then) == [drive |-> drive, then |-> then]

\* LocalState() of v1 (waiting) and of v2 (section)
LocalState == [waiting |-> [c \in SectionColors |-> FALSE],
               section |-> [c \in SectionColors |-> "NONE"]]

\* a train that was found: standing outside the shared sections, its program
\* not started, no write under way
Found == [started |-> FALSE, driving |-> FALSE, inside |-> {}, inflight |-> <<>>]

Trains == 0..(MaxTrains - 1)


NoListener == 0
NoTimer == -1
NoPacket == [n |-> 0, command |-> 0]
PendingFuture == [state |-> "PENDING", result |-> NoPacket]
NoFields == [none |-> 0]
NoCall == [op |-> "none"]
NoResult == [raised |-> "none"]
NotDecoded == [variant |-> "none", raised |-> "none", raw |-> <<>>, fields |-> NoFields]
NoKey == [has |-> FALSE, key |-> FALSE]
\* a returned bool as recorded in lastEvent
Ret(b) == IF b THEN "True" ELSE "False"
NoEvent == [op |-> "none", ret |-> "none"]

Init ==
    /\ published = 0
    /\ observers = <<>>
    /\ pc = [c \in CallIds |-> "idle"]
    /\ command = [c \in CallIds |-> CmdMac]
    /\ future = [c \in CallIds |-> PendingFuture]
    /\ rxTimer = [c \in CallIds |-> NoTimer]
    /\ wfTimer = [c \in CallIds |-> NoTimer]
    /\ skipped = [c \in CallIds |-> FALSE]
    /\ setLog = <<>>
    /\ sendRaised = [c \in CallIds |-> FALSE]
    /\ subState = [s \in SubIds |-> "none"]
    /\ queue = [s \in SubIds |-> <<>>]
    /\ faulted = [s \in SubIds |-> FALSE]
    /\ received = [s \in SubIds |-> <<>>]
    /\ subAt = [s \in SubIds |-> 0]
    /\ stopped = [s \in SubIds |-> FALSE]
    /\ disposals = [s \in SubIds |-> 0]
    /\ lastPub = [raised |-> NoListener, missed |-> <<>>]
    /\ packet = <<>>
    /\ decoded = NotDecoded
    /\ call = NoCall
    /\ result = NoResult
    /\ writes = <<>>
    /\ teamwork = [critical_section |-> [c \in SectionColors |-> FreeSection],
                   state |-> [t \in Trains |-> LocalState],
                   ready |-> <<>>,
                   track |-> [t \in Trains |-> Found],
                   announced |-> [c \in SectionColors |-> {}]]
    /\ connection_status = FALSE
    /\ connecting = 0
    /\ disconnecting = 0
    /\ statusLog = <<>>
    /\ lastEvent = NoEvent
    /\ csState = [s \in SubIds |-> "none"]
    /\ csQueue = [s \in SubIds |-> <<>>]
    /\ csKey = [s \in SubIds |-> NoKey]
    /\ csDelivered = [s \in SubIds |-> <<>>]
    /\ csAt = [s \in SubIds |-> 0]

\* ---- helpers ----
RECURSIVE Remove(_, _)
Remove(seq, x) ==
    IF seq = <<>> THEN <<>>
    ELSE IF Head(seq) = x THEN Remove(Tail(seq), x)
    ELSE <<Head(seq)>> \o Remove(Tail(seq), x)

InSeq(seq, x) == \E i \in 1..Len(seq) : seq[i] = x

\* a Subject that puts the newest observer first
SubjectSubscribeFirst(obs, l) == <<l>> \o obs

\* Subject._subscribe_core: observers.append(observer)
SubjectSubscribe(obs, l) == Append(obs, l)

\* ops.first predicate: packet.command == data.command
Matches(c, cmd) == command[c] = cmd

\* a timeout that leaves the awaited future pending
FutureLeftPending(f) == f

\* asyncio.wait_for cancels the awaited future on timeout and on cancellation
FutureCancel(f) == IF f.state = "PENDING" THEN [state |-> "CANCELLED", result |-> NoPacket] ELSE f

\* ---- time ----
RxTimerDue(c) == rxTimer[c] = 0
WaitForDue(c) == pc[c] = "waiting" /\ wfTimer[c] = 0 /\ future[c].state = "PENDING"
Elapse(t) == IF t > 0 THEN t - 1 ELSE t

\* ---- the correlator: send_command_with_response ----

\* line 101-112: create the future, subscribe the one-shot listener (which
\* schedules the take_until timer), then start the transport send
Call(c, cmd, t) ==
    /\ pc[c] = "idle"
    /\ IF c = 1 THEN TRUE ELSE pc[c - 1] # "idle"
    /\ pc' = [pc EXCEPT ![c] = "sending"]
    /\ command' = [command EXCEPT ![c] = cmd]
    /\ wfTimer' = [wfTimer EXCEPT ![c] = t]
    /\ future' = [future EXCEPT ![c] = PendingFuture]
    /\ observers' = SubjectSubscribe(observers, c)
    /\ rxTimer' = [rxTimer EXCEPT ![c] = t]
    /\ UNCHANGED <<published, skipped, setLog, sendRaised, subVars, lastPub, connVars, codecVars, writes, teamwork>>

\* line 112-113: the transport send returned; wait_for(future, timeout) starts
SendDone(c) ==
    /\ pc[c] = "sending"
    /\ pc' = [pc EXCEPT ![c] = "waiting"]
    /\ UNCHANGED <<published, observers, command, future, rxTimer, wfTimer,
                   skipped, setLog, sendRaised, subVars, lastPub, connVars, codecVars, writes, teamwork>>

\* a send whose exception is swallowed: the call goes on to wait_for
SendRaiseSwallowed(c) ==
    /\ pc[c] = "sending"
    /\ sendRaised' = [sendRaised EXCEPT ![c] = TRUE]
    /\ pc' = [pc EXCEPT ![c] = "waiting"]
    /\ UNCHANGED <<published, observers, command, future, rxTimer, wfTimer,
                   skipped, setLog, subVars, lastPub, connVars, codecVars, writes, teamwork>>

\* line 112, 89: the transport send raised; the exception leaves the coroutine
SendRaise(c) ==
    /\ pc[c] = "sending"
    /\ sendRaised' = [sendRaised EXCEPT ![c] = TRUE]
    /\ pc' = [pc EXCEPT ![c] = "transport_failure"]
    /\ wfTimer' = [wfTimer EXCEPT ![c] = NoTimer]
    /\ UNCHANGED <<published, observers, command, future, rxTimer,
                   skipped, setLog, subVars, lastPub, connVars, codecVars, writes, teamwork>>

\* line 113: wait_for returns the result of the finished future
Return(c) ==
    /\ pc[c] = "waiting"
    /\ future[c].state = "FINISHED"
    /\ pc' = [pc EXCEPT ![c] = "returned"]
    /\ wfTimer' = [wfTimer EXCEPT ![c] = NoTimer]
    /\ UNCHANGED <<published, observers, command, future, rxTimer,
                   skipped, setLog, sendRaised, subVars, lastPub, connVars, codecVars, writes, teamwork>>

\* line 113: the wait_for timer fired first; the future is cancelled and
\* TimeoutError raised.  The listener is not touched.
WaitForTimeout(c) ==
    /\ WaitForDue(c)
    /\ pc' = [pc EXCEPT ![c] = "timeout"]
    /\ future' = [future EXCEPT ![c] = FutureCancel(@)]
    /\ wfTimer' = [wfTimer EXCEPT ![c] = NoTimer]
    /\ UNCHANGED <<published, observers, command, rxTimer,
                   skipped, setLog, sendRaised, subVars, lastPub, connVars, codecVars, writes, teamwork>>

\* line 108: the take_until_with_time timer fired: on_completed reaches first,
\* which reports SequenceContainsNoElements to on_error (line 103-105) and the
\* subscription is disposed.  The future is not touched.
RxTimerFire(c) ==
    /\ RxTimerDue(c)
    /\ rxTimer' = [rxTimer EXCEPT ![c] = NoTimer]
    /\ observers' = Remove(observers, c)
    /\ UNCHANGED <<published, pc, command, future, wfTimer,
                   skipped, setLog, sendRaised, subVars, lastPub, connVars, codecVars, writes, teamwork>>

\* the caller cancels the task: during the send the CancelledError is raised
\* in the transport await (the future is not awaited yet); during wait_for
\* the awaited future is cancelled
Cancel(c) ==
    /\ pc[c] \in {"sending", "waiting"}
    /\ pc' = [pc EXCEPT ![c] = "cancelled"]
    /\ future' = [future EXCEPT ![c] = IF pc[c] = "waiting" THEN FutureCancel(@) ELSE @]
    /\ wfTimer' = [wfTimer EXCEPT ![c] = NoTimer]
    /\ UNCHANGED <<published, observers, command, rxTimer,
                   skipped, setLog, sendRaised, subVars, lastPub, connVars, codecVars, writes, teamwork>>

\* ---- the notification bus ----

\* line 107-110, the listener's on_next for a matching packet: first() passes
\* it to future.set_result and completes, which disposes the subscription and
\* its timer; set_result on a future that is not pending raises
\* InvalidStateError before anything is completed or disposed
ListenerOnNext(c, p, st) ==
    IF st.future[c].state = "PENDING"
    THEN [st EXCEPT !.future[c] = [state |-> "FINISHED", result |-> p],
                    !.setLog = Append(@, c),
                    !.observers = Remove(@, c),
                    !.rxTimer[c] = NoTimer]
    ELSE [st EXCEPT !.raised = c]

\* line 62 observe_on: the subscriber's ScheduledObserver queues the packet
ObserveOnNext(s, p, st) == [st EXCEPT !.queue[s] = Append(@, p.n)]

\* Subject._on_next_core: every observer of the copied list, in order; an
\* exception ends the loop
RECURSIVE Deliver(_, _, _)
Deliver(rest, p, st) ==
    IF rest = <<>> THEN st
    ELSE LET l == Head(rest)
             st2 == IF l \in SubIds THEN ObserveOnNext(l, p, st)
                    ELSE IF Matches(l, p.command) THEN ListenerOnNext(l, p, st)
                    ELSE st
         IN IF st2.raised # NoListener THEN [st2 EXCEPT !.missed = Tail(rest)]
            ELSE Deliver(Tail(rest), p, st2)

\* line 30, bleak_driver.py 40-42: the transport callback publishes a packet
Publish(cmd) ==
    /\ published < MaxPackets
    /\ LET p == [n |-> published + 1, command |-> cmd]
           st == Deliver(observers, p,
                         [future |-> future, setLog |-> setLog, observers |-> observers,
                          rxTimer |-> rxTimer, queue |-> queue,
                          raised |-> NoListener, missed |-> <<>>])
       IN /\ published' = p.n
          /\ future' = st.future
          /\ setLog' = st.setLog
          /\ observers' = st.observers
          /\ rxTimer' = st.rxTimer
          /\ queue' = st.queue
          /\ lastPub' = [raised |-> st.raised, missed |-> st.missed]
          /\ skipped' = [c \in CallIds |->
                           \/ skipped[c]
                           \/ /\ pc[c] \in {"sending", "waiting"}
                              /\ Matches(c, cmd)
                              /\ st.future[c].state # "FINISHED"]
    /\ UNCHANGED <<pc, command, wfTimer, sendRaised,
                   subState, faulted, received, subAt, stopped, disposals, connVars, codecVars, writes, teamwork>>

\* line 57-64: notifications.subscribe(handler); subscribe_on schedules the
\* subscription on the event loop
Subscribe(s) ==
    /\ subState[s] = "none"
    /\ IF s = 101 THEN TRUE ELSE subState[s - 1] # "none"
    /\ subState' = [subState EXCEPT ![s] = "scheduled"]
    /\ UNCHANGED <<published, observers, callVars, queue, faulted, received,
                   subAt, stopped, disposals, lastPub, connVars, codecVars, writes, teamwork>>

\* a subscription that replays the latest packet to the new subscriber
SubscribeRunReplay(s) ==
    /\ subState[s] = "scheduled"
    /\ subState' = [subState EXCEPT ![s] = "subscribed"]
    /\ observers' = SubjectSubscribe(observers, s)
    /\ subAt' = [subAt EXCEPT ![s] = published]
    /\ queue' = [queue EXCEPT ![s] = IF published > 0 THEN Append(@, published) ELSE @]
    /\ UNCHANGED <<published, callVars, faulted, received,
                   stopped, disposals, lastPub, connVars, codecVars, writes, teamwork>>

\* the scheduled action subscribes the observe_on observer to the Subject
SubscribeRun(s) ==
    /\ subState[s] = "scheduled"
    /\ subState' = [subState EXCEPT ![s] = "subscribed"]
    /\ observers' = SubjectSubscribe(observers, s)
    /\ subAt' = [subAt EXCEPT ![s] = published]
    /\ UNCHANGED <<published, callVars, queue, faulted, received,
                   stopped, disposals, lastPub, connVars, codecVars, writes, teamwork>>

\* ScheduledObserver.run on the event loop: the handler gets the next queued packet
HandlerOk(s) ==
    /\ ~faulted[s]
    /\ ~stopped[s]
    /\ queue[s] # <<>>
    /\ received' = [received EXCEPT ![s] = Append(@, Head(queue[s]))]
    /\ queue' = [queue EXCEPT ![s] = Tail(@)]
    /\ UNCHANGED <<published, observers, callVars, subState, faulted,
                   subAt, stopped, disposals, lastPub, connVars, codecVars, writes, teamwork>>

\* the handler raises: the ScheduledObserver drops its queue and is faulted
HandlerRaise(s) ==
    /\ ~faulted[s]
    /\ ~stopped[s]
    /\ queue[s] # <<>>
    /\ received' = [received EXCEPT ![s] = Append(@, Head(queue[s]))]
    /\ queue' = [queue EXCEPT ![s] = <<>>]
    /\ faulted' = [faulted EXCEPT ![s] = TRUE]
    /\ UNCHANGED <<published, observers, callVars, subState,
                   subAt, stopped, disposals, lastPub, connVars, codecVars, writes, teamwork>>

\* ---- unsubscribing: subscription.dispose() ----

\* AutoDetachObserver.dispose and the SerialDisposable of subscribe_on: a
\* pending subscription is cancelled, an established one is handed to a
\* ScheduledDisposable that unsubscribes on the event loop
AfterDispose(st) ==
    CASE st = "scheduled" -> "disposed"
      [] st = "subscribed" -> "disposing"
      [] OTHER -> st

\* the dispose calls made so far, by all subscribers together
DisposeCalls ==
    LET calls[i \in 0..MaxSubs] == IF i = 0 THEN 0 ELSE calls[i - 1] + disposals[100 + i]
    IN calls[MaxSubs]

\* a dispose that only schedules the unsubscription and does not stop the observer
DisposeLazy(s) ==
    /\ subState[s] # "none"
    /\ DisposeCalls < MaxDisposals
    /\ disposals' = [disposals EXCEPT ![s] = @ + 1]
    /\ subState' = [subState EXCEPT ![s] = AfterDispose(@)]
    /\ UNCHANGED <<published, observers, callVars, queue, faulted, received,
                   subAt, stopped, lastPub, connVars, codecVars, writes, teamwork>>

\* subscription.dispose() (examples/alternating_routes.py line 60): the
\* AutoDetachObserver is stopped at once; a second dispose finds everything
\* disposed already
Dispose(s) ==
    /\ subState[s] # "none"
    /\ DisposeCalls < MaxDisposals
    /\ disposals' = [disposals EXCEPT ![s] = @ + 1]
    /\ stopped' = [stopped EXCEPT ![s] = TRUE]
    /\ subState' = [subState EXCEPT ![s] = AfterDispose(@)]
    /\ UNCHANGED <<published, observers, callVars, queue, faulted, received,
                   subAt, lastPub, connVars, codecVars, writes, teamwork>>

\* the handler gets the next queued packet and disposes its own subscription
\* before it returns
HandlerDispose(s) ==
    /\ ~faulted[s]
    /\ ~stopped[s]
    /\ queue[s] # <<>>
    /\ DisposeCalls < MaxDisposals
    /\ received' = [received EXCEPT ![s] = Append(@, Head(queue[s]))]
    /\ queue' = [queue EXCEPT ![s] = Tail(@)]
    /\ disposals' = [disposals EXCEPT ![s] = @ + 1]
    /\ stopped' = [stopped EXCEPT ![s] = TRUE]
    /\ subState' = [subState EXCEPT ![s] = AfterDispose(@)]
    /\ UNCHANGED <<published, observers, callVars, faulted, subAt, lastPub, connVars, codecVars, writes, teamwork>>

\* the ScheduledDisposable's action: the observer leaves the Subject
DisposeRun(s) ==
    /\ subState[s] = "disposing"
    /\ subState' = [subState EXCEPT ![s] = "disposed"]
    /\ observers' = Remove(observers, s)
    /\ UNCHANGED <<published, callVars, queue, faulted, received,
                   subAt, stopped, disposals, lastPub, connVars, codecVars, writes, teamwork>>

\* ScheduledObserver.run for a stopped observer: the queued packet is taken
\* and AutoDetachObserver.on_next returns without calling the handler
RunStopped(s) ==
    /\ ~faulted[s]
    /\ stopped[s]
    /\ queue[s] # <<>>
    /\ queue' = [queue EXCEPT ![s] = Tail(@)]
    /\ UNCHANGED <<published, observers, callVars, subState, faulted, received,
                   subAt, stopped, disposals, lastPub, connVars, codecVars, writes, teamwork>>

\* one tick passes on every running timer; a due timer fires before the next
\* tick.  The wait_for timer runs from the end of the send.
Tick ==
    /\ \A c \in CallIds : ~RxTimerDue(c) /\ ~WaitForDue(c)
    /\ \E c \in CallIds : rxTimer[c] > 0 \/ (pc[c] = "waiting" /\ wfTimer[c] > 0)
    /\ rxTimer' = [c \in CallIds |-> Elapse(rxTimer[c])]
    /\ wfTimer' = [c \in CallIds |-> IF pc[c] = "waiting" THEN Elapse(wfTimer[c]) ELSE wfTimer[c]]
    /\ UNCHANGED <<published, observers, pc, command, future, skipped, setLog,
                   sendRaised, subVars, lastPub, connVars, codecVars, writes, teamwork>>

\* the two command ids are interchangeable: the first call's is CmdMac
Next ==
    \/ \E c \in CallIds, cmd \in Commands, t \in Timeouts : (c = 1 => cmd = CmdMac) /\ Call(c, cmd, t)
    \/ \E c \in CallIds : SendDone(c)
    \/ \E c \in CallIds : SendRaise(c)
    \/ \E c \in CallIds : Return(c)
    \/ \E c \in CallIds : WaitForTimeout(c)
    \/ \E c \in CallIds : RxTimerFire(c)
    \/ \E c \in CallIds : Cancel(c)
    \/ \E cmd \in Commands : Publish(cmd)
    \/ Tick

Spec == Init /\ [][Next]_vars

\* the bus with its notifications subscribers and one correlator call
NextBus ==
    \/ \E cmd \in Commands, t \in Timeouts : Call(1, cmd, t)
    \/ SendDone(1)
    \/ SendRaise(1)
    \/ Return(1)
    \/ WaitForTimeout(1)
    \/ RxTimerFire(1)
    \/ Cancel(1)
    \/ \E cmd \in Commands : Publish(cmd)
    \/ \E s \in SubIds : Subscribe(s)
    \/ \E s \in SubIds : SubscribeRun(s)
    \/ \E s \in SubIds : HandlerOk(s)
    \/ \E s \in SubIds : HandlerRaise(s)
    \/ Tick

SpecBus == Init /\ [][NextBus]_vars

\* the bus with its notifications subscribers alone
NextSubscribers ==
    \/ \E cmd \in Commands : Publish(cmd)
    \/ \E s \in SubIds : Subscribe(s)
    \/ \E s \in SubIds : SubscribeRun(s)
    \/ \E s \in SubIds : HandlerOk(s)
    \/ \E s \in SubIds : HandlerRaise(s)

SpecSubscribers == Init /\ [][NextSubscribers]_vars

\* ---- the connection state ----

busVars == <<published, observers, callVars, subVars, lastPub>>
csVars == <<csState, csQueue, csKey, csDelivered, csAt>>

\* line 53-55
is_connected == connection_status

\* BehaviorSubject.on_next: the value is stored and passed to every
\* subscribed observer, whose observe_on queue takes it
StatusOnNext(v) ==
    /\ Len(statusLog) < MaxStatus
    /\ connection_status' = v
    /\ statusLog' = Append(statusLog, v)
    /\ csQueue' = [s \in SubIds |->
                     IF csState[s] = "subscribed" THEN Append(csQueue[s], v) ELSE csQueue[s]]

\* a connect that can be started only once
ConnectStartOnce(force) ==
    /\ connecting + disconnecting < MaxOps
    /\ ~(is_connected /\ ~force)
    /\ statusLog = <<>>
    /\ connecting' = connecting + 1
    /\ UNCHANGED <<busVars, codecVars, connection_status, disconnecting, statusLog, lastEvent, csVars, writes, teamwork>>

\* line 75-79: connect(force) passes the guard and awaits driver.connect
ConnectStart(force) ==
    /\ connecting + disconnecting < MaxOps
    /\ ~(is_connected /\ ~force)
    /\ connecting' = connecting + 1
    /\ UNCHANGED <<busVars, codecVars, connection_status, disconnecting, statusLog, lastEvent, csVars, writes, teamwork>>

\* line 76-77: connect() while connected and not forced returns True at once
ConnectNoop ==
    /\ is_connected
    /\ lastEvent' = [op |-> "connect", ret |-> Ret(TRUE)]
    /\ UNCHANGED <<busVars, codecVars, connection_status, connecting, disconnecting, statusLog, csVars, writes, teamwork>>

\* line 79-81: driver.connect answered; the answer is published and returned
ConnectDone(ans) ==
    /\ connecting > 0
    /\ connecting' = connecting - 1
    /\ StatusOnNext(ans)
    /\ lastEvent' = [op |-> "connect", ret |-> Ret(ans)]
    /\ UNCHANGED <<busVars, codecVars, disconnecting, csState, csKey, csDelivered, csAt, writes, teamwork>>

\* line 79: driver.connect raised; the exception leaves connect()
ConnectRaise ==
    /\ connecting > 0
    /\ connecting' = connecting - 1
    /\ lastEvent' = [op |-> "connect", ret |-> "raised"]
    /\ UNCHANGED <<busVars, codecVars, connection_status, disconnecting, statusLog, csVars, writes, teamwork>>

\* line 83-84: disconnect() awaits driver.disconnect, whatever the state
DisconnectStart ==
    /\ connecting + disconnecting < MaxOps
    /\ disconnecting' = disconnecting + 1
    /\ UNCHANGED <<busVars, codecVars, connection_status, connecting, statusLog, lastEvent, csVars, writes, teamwork>>

\* line 84-86: driver.disconnect answered; its negation is published and the
\* answer returned
DisconnectDone(ans) ==
    /\ disconnecting > 0
    /\ disconnecting' = disconnecting - 1
    /\ StatusOnNext(~ans)
    /\ lastEvent' = [op |-> "disconnect", ret |-> Ret(ans)]
    /\ UNCHANGED <<busVars, codecVars, connecting, csState, csKey, csDelivered, csAt, writes, teamwork>>

\* a disconnect listener that leaves the connection status alone
DisconnectListenerIgnored ==
    /\ Len(statusLog) < MaxStatus
    /\ statusLog' = Append(statusLog, connection_status)
    /\ lastEvent' = [op |-> "listener", ret |-> "none"]
    /\ UNCHANGED <<busVars, codecVars, connection_status, connecting, disconnecting, csVars, writes, teamwork>>

\* line 31: the driver's disconnect callback publishes False
DisconnectListener ==
    /\ StatusOnNext(FALSE)
    /\ lastEvent' = [op |-> "listener", ret |-> "none"]
    /\ UNCHANGED <<busVars, codecVars, connecting, disconnecting, csState, csKey, csDelivered, csAt, writes, teamwork>>

\* line 43-51: connection_status.subscribe(handler); subscribe_on schedules
\* the subscription
CsSubscribe(s) ==
    /\ csState[s] = "none"
    /\ IF s = 101 THEN TRUE ELSE csState[s - 1] # "none"
    /\ csState' = [csState EXCEPT ![s] = "scheduled"]
    /\ UNCHANGED <<busVars, codecVars, connection_status, connecting, disconnecting, statusLog,
                   lastEvent, csQueue, csKey, csDelivered, csAt, writes, teamwork>>

\* a subscription to a plain Subject: nothing is replayed
CsSubscribeRunNoReplay(s) ==
    /\ csState[s] = "scheduled"
    /\ IF s = 101 THEN TRUE ELSE csState[s - 1] # "scheduled"
    /\ csState' = [csState EXCEPT ![s] = "subscribed"]
    /\ csAt' = [csAt EXCEPT ![s] = Len(statusLog)]
    /\ UNCHANGED <<busVars, codecVars, connection_status, connecting, disconnecting, statusLog,
                   lastEvent, csQueue, csKey, csDelivered, writes, teamwork>>

\* BehaviorSubject._subscribe_core in the scheduled action: the observer is
\* added and handed the current value.  The event loop runs scheduled
\* subscriptions in the order they were scheduled.
CsSubscribeRun(s) ==
    /\ csState[s] = "scheduled"
    /\ IF s = 101 THEN TRUE ELSE csState[s - 1] # "scheduled"
    /\ csState' = [csState EXCEPT ![s] = "subscribed"]
    /\ csQueue' = [csQueue EXCEPT ![s] = Append(@, connection_status)]
    /\ csAt' = [csAt EXCEPT ![s] = Len(statusLog)]
    /\ UNCHANGED <<busVars, codecVars, connection_status, connecting, disconnecting, statusLog,
                   lastEvent, csKey, csDelivered, writes, teamwork>>

\* a delivery without distinct_until_changed
CsDeliverAll(s) ==
    /\ csQueue[s] # <<>>
    /\ csQueue' = [csQueue EXCEPT ![s] = Tail(@)]
    /\ csKey' = [csKey EXCEPT ![s] = [has |-> TRUE, key |-> Head(csQueue[s])]]
    /\ csDelivered' = [csDelivered EXCEPT ![s] = Append(@, Head(csQueue[s]))]
    /\ UNCHANGED <<busVars, codecVars, connection_status, connecting, disconnecting, statusLog,
                   lastEvent, csState, csAt, writes, teamwork>>

\* ScheduledObserver.run, then distinct_until_changed (line 50): the handler
\* is invoked unless the value equals the last one passed on
CsDeliver(s) ==
    /\ csQueue[s] # <<>>
    /\ csQueue' = [csQueue EXCEPT ![s] = Tail(@)]
    /\ csKey' = [csKey EXCEPT ![s] = [has |-> TRUE, key |-> Head(csQueue[s])]]
    /\ csDelivered' = [csDelivered EXCEPT ![s] =
                          IF csKey[s].has /\ csKey[s].key = Head(csQueue[s]) THEN @ ELSE Append(@, Head(csQueue[s]))]
    /\ UNCHANGED <<busVars, codecVars, connection_status, connecting, disconnecting, statusLog,
                   lastEvent, csState, csAt, writes, teamwork>>

NextConn ==
    \/ \E force \in BOOLEAN : ConnectStart(force)
    \/ ConnectNoop
    \/ \E ans \in BOOLEAN : ConnectDone(ans)
    \/ ConnectRaise
    \/ DisconnectStart
    \/ \E ans \in BOOLEAN : DisconnectDone(ans)
    \/ DisconnectListener
    \/ \E s \in SubIds : CsSubscribe(s)
    \/ \E s \in SubIds : CsSubscribeRun(s)
    \/ \E s \in SubIds : CsDeliver(s)

SpecConn == Init /\ [][NextConn]_vars

\* ---- hex text ----

\* text is a sequence of characters
HexDigits == <<"0", "1", "2", "3", "4", "5", "6", "7", "8", "9", "a", "b", "c", "d", "e", "f">>

\* f"{byte:02x}"
HexByte(b) == <<HexDigits[(b \div 16) + 1], HexDigits[(b % 16) + 1]>>

\* delimiter.join(tokens)
RECURSIVE Join(_, _)
Join(tokens, delimiter) ==
    IF tokens = <<>> THEN <<>>
    ELSE IF Len(tokens) = 1 THEN tokens[1]
    ELSE tokens[1] \o <<delimiter>> \o Join(Tail(tokens), delimiter)

\* train_ble_packet.py line 30-31, 72: ":".join(f"{byte:02x}" for byte in data)
HexString(bytes) == Join([i \in 1..Len(bytes) |-> HexByte(bytes[i])], ":")

\* ---- decoding: TrainBlePacket.msg and MessageBuilder ----

\* train_ble_packet.py line 39-41
PacketCommand(data) == IF data = <<>> THEN 0 ELSE data[1]

\* train_ble_packet.py line 43-45: data[2:]
PacketPayload(data) == IF Len(data) <= 2 THEN <<>> ELSE SubSeq(data, 3, Len(data))

\* a message object: its class, the packet it was made from and its fields
Msg(v, data, f) == [variant |-> v, raised |-> "none", raw |-> data, fields |-> f]
Raise(e) == [variant |-> "none", raised |-> e, raw |-> <<>>, fields |-> NoFields]

\* message_builder.py line 143-156, _unpack: the payload holds the bytes the
\* format needs after the offset
CanUnpack(size, data, offset) == Len(PacketPayload(data)) >= size + offset

\* the byte at a 0-based position of the payload
PayloadByte(data, i) == PacketPayload(data)[i + 1]

\* struct formats ">H" and ">L": big-endian; a 32-bit value is kept as its
\* two 16-bit halves
U16(hi, lo) == hi * 256 + lo
U32LittleEndian(data, i) ==
    [hi |-> U16(PayloadByte(data, i + 3), PayloadByte(data, i + 2)),
     lo |-> U16(PayloadByte(data, i + 1), PayloadByte(data, i))]

U32(data, i) ==
    [hi |-> U16(PayloadByte(data, i), PayloadByte(data, i + 1)),
     lo |-> U16(PayloadByte(data, i + 2), PayloadByte(data, i + 3))]

\* struct format "?": any non-zero byte is True
UnpackBool(b) == b # 0

\* enums.py line 104-117: IntEnum(value) raises ValueError for a value that is no member;
\* the IntFlag classes take every value
MovementDirection == 0..4
ButtonPress == {1, 2}

\* enums.py line 17, 62, 69: SnapColorValue, _OldSteeringDecision and
\* SteeringDecision are IntFlag classes: every int is accepted and keeps its value
IntFlag(b) == b

\* enums.py line 90-101
ConvertFromOldSteeringDecision(d) ==
    CASE d = 0 -> SteeringNone
      [] d = 1 -> SteeringLeft
      [] d = 2 -> SteeringRight
      [] d = 3 -> SteeringStraight
      [] OTHER -> SteeringNone

\* an odometer that scales the raw value whatever it is
OdometerMetersUnchecked(cm) == [num |-> cm, den |-> 100]

\* message_builder.py line 201-207 and 220-234: 0xFFFFFFFF stands for 0, then
\* centimetres are divided by 100.0
OdometerMeters(cm) ==
    [num |-> IF cm = [hi |-> 65535, lo |-> 65535] THEN [hi |-> 0, lo |-> 0] ELSE cm,
     den |-> 100]

\* train_ble_packet.py line 64-72, make_hex_string(with_header=False): the
\* payload cut to the length byte, as hex text
MakeHexString(data) ==
    LET payload == PacketPayload(data)
        length == IF Len(data) >= 2 THEN data[2] ELSE 0
    IN HexString(SubSeq(payload, 1, IF length < Len(payload) THEN length ELSE Len(payload)))

\* a parser of a fixed format that yields one message class
Parse(size, data, offset, v, f) ==
    IF CanUnpack(size, data, offset) THEN Msg(v, data, f) ELSE Raise("TrainMessageLengthError")

\* a parser that converts one unpacked byte with an IntEnum
ParseEnum(size, data, offset, at, members, v, f) ==
    IF ~CanUnpack(size, data, offset) THEN Raise("TrainMessageLengthError")
    ELSE IF PayloadByte(data, at) \in members THEN Msg(v, data, f)
    ELSE Raise("ValueError")

\* message_builder.py line 239-249 and 263-273: MovementDirection(direction),
\* ButtonPress(press_type)
EventEnum(data, members, v, f) ==
    ParseEnum(1, data, EVENT_PAYLOAD_OFFSET, EVENT_PAYLOAD_OFFSET, members, v, f)

\* message_builder.py line 277-299: SnapColorValue(c) for c in (c1, c2, c3, c4)
SnapColors(data) ==
    [i \in 1..4 |-> IntFlag(PayloadByte(data, EVENT_PAYLOAD_OFFSET + i))]

\* message_builder.py line 95-141 with the event parsers of line 239-334
CreateEvent(data) ==
    IF ~CanUnpack(5, data, 0) THEN Raise("TrainMessageLengthError")
    ELSE LET id == PayloadByte(data, 0)
             ts == U32(data, 1)
             at == EVENT_PAYLOAD_OFFSET
         IN CASE id = 1 -> EventEnum(data, MovementDirection, "TrainMsgEventMovementDirectionChanged",
                                     [timestamp_ms |-> ts, direction |-> PayloadByte(data, at)])
              [] id = 2 -> Msg("TrainMsgEventLowBattery", data, [timestamp_ms |-> ts])
              [] id = 3 -> Msg("TrainMsgEventLowBatteryCutOff", data, [timestamp_ms |-> ts])
              [] id = 4 -> Parse(1, data, at, "TrainMsgEventChargingStateChanged",
                                 [timestamp_ms |-> ts, is_charging |-> UnpackBool(PayloadByte(data, at))])
              [] id = 5 -> EventEnum(data, ButtonPress, "TrainMsgEventButtonPressDetected",
                                     [timestamp_ms |-> ts, button_press_type |-> PayloadByte(data, at)])
              [] id = 6 -> Parse(5, data, at, "TrainMsgEventSnapCommandExecuted",
                                 [timestamp_ms |-> ts, snap_counter |-> PayloadByte(data, at),
                                  colors |-> SnapColors(data)])
              [] id = 7 -> Parse(5, data, at, "TrainMsgEventFrontColorChanged",
                                 [timestamp_ms |-> ts, color |-> IntFlag(PayloadByte(data, at + 4))])
              [] id = 8 -> Parse(5, data, at, "TrainMsgEventBackColorChanged",
                                 [timestamp_ms |-> ts, color |-> IntFlag(PayloadByte(data, at + 4))])
              [] id = 9 -> Parse(5, data, at, "TrainMsgEventSnapCommandDetected",
                                 [timestamp_ms |-> ts, snap_counter |-> PayloadByte(data, at),
                                  colors |-> SnapColors(data)])
              [] id = 10 -> Parse(5, data, at, "TrainMsgEventSplitDecision",
                                  [timestamp_ms |-> ts, decision |-> IntFlag(PayloadByte(data, at))])
              [] OTHER -> Msg("TrainMsgEventUnknown", data, [timestamp_ms |-> ts])

\* message_builder.py line 210-234, the fields of _movement (format
\* ">BHB?HBB?BBLBB")
MovementFields(data) ==
    [direction |-> PayloadByte(data, 0),
     speed_cmps |-> [num |-> U16(PayloadByte(data, 1), PayloadByte(data, 2)), den |-> 10],
     pwm |-> 255 - PayloadByte(data, 3),
     speed_control |-> UnpackBool(PayloadByte(data, 4)),
     desired_speed_cmps |-> [num |-> U16(PayloadByte(data, 5), PayloadByte(data, 6)), den |-> 10],
     pause_time_ms |-> PayloadByte(data, 7) * 10,
     next_split_decision |-> ConvertFromOldSteeringDecision(IntFlag(PayloadByte(data, 8))),
     lifetime_odometer_meters |-> OdometerMeters(U32(data, 12))]

\* message_builder.py line 71-93 with the parsers of line 158-234
Create(data) ==
    LET cmd == PacketCommand(data)
    IN CASE cmd = CmdEvent -> CreateEvent(data)
         [] cmd = CmdMac -> Parse(6, data, 0, "TrainMsgMacAddress",
                                  [mac_address |-> MakeHexString(data)])
         [] cmd = CmdUuid -> Parse(8, data, 0, "TrainMsgTrainUuid",
                                   [uuid |-> MakeHexString(data)])
         [] cmd = CmdVersion -> Parse(9, data, 0, "TrainMsgVersionDetail",
                                      [ble_api_version |-> <<PayloadByte(data, 4), PayloadByte(data, 5)>>,
                                       fw_version |-> <<PayloadByte(data, 6), PayloadByte(data, 7),
                                                        PayloadByte(data, 8)>>])
         [] cmd = CmdOdometer -> Parse(4, data, 0, "TrainMsgStatsLifetimeOdometer",
                                       [lifetime_odometer_meters |-> OdometerMeters(U32(data, 0))])
         [] cmd = CmdMovement -> ParseEnum(18, data, 0, 0, MovementDirection, "TrainMsgMovement",
                                           MovementFields(data))
         [] OTHER -> Msg("TrainMsgUnknown", data, NoFields)

\* a msg property that gives unknown for a packet it cannot parse
PacketMsgUnknownOnError(data) ==
    LET m == Create(data)
    IN IF m.raised = "TrainMessageLengthError" THEN Msg("TrainMsgUnknown", data, NoFields) ELSE m

\* train_ble_packet.py line 47-52: msg turns a TrainlibError into
\* TrainMsgMalformed; any other exception leaves the property
PacketMsg(data) ==
    LET m == Create(data)
    IN IF m.raised = "TrainMessageLengthError" THEN Msg("TrainMsgMalformed", data, NoFields) ELSE m

\* packets of every command id, first payload byte, later payload byte and
\* payload length of the bounded sets
CommandIds == {0, CmdMac, CmdUuid, CmdVersion, CmdOdometer, CmdMovement, CmdEvent, CmdOther}
MakePacket(cmd, first, field, len) ==
    <<cmd, len>> \o [i \in 1..len |-> IF i = 1 THEN first
                                      ELSE IF i <= EVENT_PAYLOAD_OFFSET THEN (field + i - 1) % 256
                                      ELSE field]

\* field bytes: small values and values above the three colour bits
FieldBytes == (0..MaxField) \cup {8, 200, 255}

\* a movement packet of the 18-byte layout with the given raw values
MovementPacket(direction, speed, pwm, pause, decision, odometer) ==
    <<CmdMovement, 18, direction, speed \div 256, speed % 256, pwm, 1,
      speed \div 256, speed % 256, pause, decision, 0, 0, 0>> \o odometer \o <<0, 0>>

\* raw odometer values: 0, 1000, 0xFFFFFFFE and 0xFFFFFFFF
OdometerBytes == {<<0, 0, 0, 0>>, <<0, 0, 3, 232>>, <<255, 255, 255, 254>>, <<255, 255, 255, 255>>}

Packets ==
    {<<>>} \cup {<<cmd>> : cmd \in CommandIds}
    \cup {MakePacket(cmd, first, field, len) :
            cmd \in CommandIds, first \in 0..MaxEventId, field \in FieldBytes, len \in 0..MaxPayload}
    \cup {MovementPacket(direction, speed, 55, pause, decision, odometer) :
            direction \in {1, 5}, speed \in {0, 350}, pause \in {0, 3},
            decision \in 0..MaxField, odometer \in OdometerBytes}
    \cup {<<CmdOdometer, 4>> \o odometer : odometer \in OdometerBytes}

\* nothing was received, decoded or called yet
Fresh == packet = <<>> /\ decoded = NotDecoded /\ call = NoCall

\* bleak_driver.py line 40-42: the driver wraps the received bytes in a packet
Receive(p) ==
    /\ Fresh
    /\ packet' = p
    /\ decoded' = NotDecoded
    /\ UNCHANGED <<busVars, connVars, call, result, writes, teamwork>>

\* train.py line 76: packet.msg
Decode ==
    /\ decoded = NotDecoded
    /\ decoded' = PacketMsg(packet)
    /\ UNCHANGED <<busVars, connVars, packet, call, result, writes, teamwork>>

\* the message classes the Train getters ask for (train.py line 107-122)
MessageTypes ==
    {"TrainMsgMacAddress", "TrainMsgTrainUuid", "TrainMsgVersionDetail",
     "TrainMsgStatsLifetimeOdometer"}

\* train_ble_packet.py line 54-62: MessageBuilder.create is called outside any
\* try, then the isinstance check
InterpretedMessage(data, msg_type) ==
    LET m == Create(data)
    IN IF m.raised # "none" THEN [raised |-> m.raised]
       ELSE IF m.variant = msg_type THEN [raised |-> "none", returned |-> m]
       ELSE [raised |-> "TrainMessageTypeError"]

\* packet.get_interpreted_message(msg_type)
GetInterpretedMessage(msg_type) ==
    /\ call = NoCall
    /\ call' = [op |-> "get_interpreted_message", packet |-> packet, msg_type |-> msg_type]
    /\ result' = InterpretedMessage(packet, msg_type)
    /\ UNCHANGED <<busVars, connVars, packet, decoded, writes, teamwork>>

NextStrict ==
    \/ Fresh /\ \E p \in Packets : Receive(p)
    \/ call = NoCall /\ \E msg_type \in MessageTypes : GetInterpretedMessage(msg_type)

SpecStrict == Init /\ [][NextStrict]_vars

\* ---- encoding: TrainBlePacket.from_command ----

\* train_ble_packet.py line 23-28: a list is stored as bytearray(int(val) & 0xFF)
PacketInit(values) == [i \in 1..Len(values) |-> values[i] % 256]

\* a from_command that writes no length byte
FromCommandDataNoLength(command_id, payload, length) ==
    PacketInit(<<command_id>> \o payload)

\* train_ble_packet.py line 74-89: [command_id, len(payload) or length, *payload];
\* length is <<>> for None and <<n>> for a given length
FromCommandData(command_id, payload, length) ==
    PacketInit(<<command_id, IF length = <<>> THEN Len(payload) ELSE length[1]>> \o payload)

\* command ids inside and outside a byte
CommandInputs == {-1, 0, CmdVersion, CmdMac, 255, 256, 256 + CmdMac}

\* payloads of byte values, of the bounded lengths and of lengths 253 and 256,
\* and one whose values are not bytes
PayloadInput(len, base) == [i \in 1..len |-> (base + 7 * i) % 256]
PayloadInputs ==
    {PayloadInput(len, base) : len \in (0..MaxLen) \cup {253, 256}, base \in 0..MaxBase}
    \cup {<<257, -1>>}

LengthInputs == {<<>>, <<0>>, <<MaxLen + 1>>}

\* TrainBlePacket.from_command(command_id, payload, length)
FromCommand(command_id, payload, length) ==
    /\ call = NoCall
    /\ call' = [op |-> "from_command", command_id |-> command_id,
                payload |-> payload, length |-> length]
    /\ result' = [raised |-> "none"]
    /\ packet' = FromCommandData(command_id, payload, length)
    /\ UNCHANGED <<busVars, connVars, decoded, writes, teamwork>>

NextEncode ==
    call = NoCall /\ \E command_id \in CommandInputs, payload \in PayloadInputs, length \in LengthInputs :
        FromCommand(command_id, payload, length)

SpecEncode == Init /\ [][NextEncode]_vars

\* ---- snap commands: SnapCommand.__eq__ and starts_with ----

\* messages.py line 73-80: a tuple is extended by three BLACK and cut to four
\* colours, then compared as a tuple
SnapEq(s, t) ==
    LET filled == t \o <<0, 0, 0>>
        other == SubSeq(filled, 1, IF Len(filled) < 4 THEN Len(filled) ELSE 4)
    IN s = other

\* messages.py line 101-111: False at the first colour that is beyond the
\* command or differs
SnapStartsWith(s, t) == \A idx \in 1..Len(t) : idx <= Len(s) /\ s[idx] = t[idx]

\* colours BLACK, RED and WHITE; commands of four colours, tuples of 0 to 4
ColorInputs == {0, 1, 7}
SnapCommands == [1..4 -> ColorInputs]
ColorTuples == UNION {[1..n -> ColorInputs] : n \in 0..4}

\* snap_command == colors
SnapCommandEq(s, t) ==
    /\ call = NoCall
    /\ call' = [op |-> "__eq__", self |-> s, colors |-> t]
    /\ result' = [raised |-> "none", value |-> SnapEq(s, t)]
    /\ UNCHANGED <<busVars, connVars, packet, decoded, writes, teamwork>>

\* snap_command.starts_with(colors)
SnapCommandStartsWith(s, t) ==
    /\ call = NoCall
    /\ call' = [op |-> "starts_with", self |-> s, colors |-> t]
    /\ result' = [raised |-> "none", value |-> SnapStartsWith(s, t)]
    /\ UNCHANGED <<busVars, connVars, packet, decoded, writes, teamwork>>

NextSnap ==
    \/ call = NoCall /\ \E s \in SnapCommands, t \in ColorTuples : SnapCommandEq(s, t)
    \/ call = NoCall /\ \E s \in SnapCommands, t \in ColorTuples : SnapCommandStartsWith(s, t)

SpecSnap == Init /\ [][NextSnap]_vars

\* ---- hex text to packet: TrainBlePacket.from_hex_string ----

\* data_string.split(":"): the text between the delimiters, one empty token
\* for an empty text
RECURSIVE Split(_, _)
Split(text, delimiter) ==
    IF \A i \in 1..Len(text) : text[i] # delimiter THEN <<text>>
    ELSE LET k == CHOOSE i \in 1..Len(text) :
                     text[i] = delimiter /\ \A j \in 1..(i - 1) : text[j] # delimiter
         IN <<SubSeq(text, 1, k - 1)>> \o Split(SubSeq(text, k + 1, Len(text)), delimiter)

\* int(v, 16) takes a token of one or more hex digits (over the characters of
\* the model) and raises ValueError for any other
IsHexToken(token) ==
    /\ token # <<>>
    /\ \A i \in 1..Len(token) : \E d \in 1..16 : HexDigits[d] = token[i]

RECURSIVE HexValue(_)
HexValue(token) ==
    IF token = <<>> THEN 0
    ELSE LET last == token[Len(token)]
             digit == CHOOSE d \in 1..16 : HexDigits[d] = last
         IN HexValue(SubSeq(token, 1, Len(token) - 1)) * 16 + (digit - 1)

\* train_ble_packet.py line 91-94: cls(list(map(lambda v: int(v, 16), data_string.split(":"))))
FromHexStringData(text) ==
    LET tokens == Split(text, ":")
    IN IF \E i \in 1..Len(tokens) : ~IsHexToken(tokens[i])
       THEN [raised |-> "ValueError", data |-> <<>>]
       ELSE [raised |-> "none",
             data |-> PacketInit([i \in 1..Len(tokens) |-> HexValue(tokens[i])])]

\* byte buffers of length 0 to the bound, and their rendering by str()
ByteInputs == {0, 10, 171, 255}
HexPackets == UNION {[1..n -> ByteInputs] : n \in 0..MaxLen}

\* texts of hex digits, a character that is none, and the delimiter
Chars == {"0", "a", "f", "z", ":"}
TextInputs == UNION {[1..n -> Chars] : n \in 0..MaxText}

\* TrainBlePacket.from_hex_string(data_string)
FromHexString(text) ==
    /\ call = NoCall
    /\ call' = [op |-> "from_hex_string", data_string |-> text]
    /\ result' = [raised |-> FromHexStringData(text).raised]
    /\ packet' = FromHexStringData(text).data
    /\ UNCHANGED <<busVars, connVars, decoded, writes, teamwork>>

\* train_ble_packet.py line 64-72: the header is dropped or kept, then, unless
\* with_garbage, the bytes are cut to the first data[1] of them
MakeHexStringOf(data, with_header, with_garbage) ==
    LET shown == IF with_header THEN data ELSE PacketPayload(data)
        length == IF Len(data) >= 2 THEN data[2] ELSE 0
    IN HexString(IF with_garbage THEN shown
                 ELSE SubSeq(shown, 1, IF length < Len(shown) THEN length ELSE Len(shown)))

\* packets whose length byte is their payload byte count
DeclaredPackets == {FromCommandData(cmd, payload, <<>>) : cmd \in ByteInputs, payload \in HexPackets}

\* packet.make_hex_string(with_header, ":", with_garbage)
MakeHexStringCall(data, with_header, with_garbage) ==
    /\ call = NoCall
    /\ call' = [op |-> "make_hex_string", data |-> data,
                with_header |-> with_header, with_garbage |-> with_garbage]
    /\ result' = [raised |-> "none", text |-> MakeHexStringOf(data, with_header, with_garbage)]
    /\ UNCHANGED <<busVars, connVars, packet, decoded, writes, teamwork>>

NextHex ==
    \/ call = NoCall /\ \E p \in HexPackets : FromHexString(HexString(p))
    \/ call = NoCall /\ \E text \in TextInputs : FromHexString(text)
    \/ call = NoCall /\ \E data \in DeclaredPackets \cup HexPackets, with_header, with_garbage \in BOOLEAN :
           MakeHexStringCall(data, with_header, with_garbage)

SpecHex == Init /\ [][NextHex]_vars

NextCodec ==
    \/ Fresh /\ \E p \in Packets : Receive(p)
    \/ Decode

SpecCodec == Init /\ [][NextCodec]_vars

\* ---- Train.notifications: the message stream ----

\* inbound packets: a MAC response, a short MAC response, a packet of an
\* unknown command, a direction-changed event with direction byte 5 and a
\* button event with press type 0
StreamPackets ==
    {MakePacket(CmdMac, 1, 1, 6), MakePacket(CmdMac, 1, 1, 3), MakePacket(CmdOther, 0, 0, 0),
     MakePacket(CmdEvent, 1, 5, 6), MakePacket(CmdEvent, 5, 0, 6)}

\* train_ble_device.py line 30: the transport callback passes the packet to
\* Subject.on_next; the observe_on observer of every subscriber queues it
Inbound(p) ==
    /\ published < MaxPackets
    /\ published' = published + 1
    /\ queue' = [s \in SubIds |-> IF InSeq(observers, s) THEN Append(queue[s], p) ELSE queue[s]]
    /\ UNCHANGED <<observers, callVars, subState, faulted, received, subAt, stopped,
                   disposals, lastPub, connVars, codecVars, writes, teamwork>>

\* train.py line 76, ops.map: the exception of packet.msg goes to on_error of
\* the subscriber's AutoDetachObserver, which stops and disposes the
\* subscription; the handler is not called again
MapOnError(s) ==
    /\ ~faulted[s]
    /\ ~stopped[s]
    /\ queue[s] # <<>>
    /\ PacketMsg(Head(queue[s])).raised # "none"
    /\ queue' = [queue EXCEPT ![s] = Tail(@)]
    /\ stopped' = [stopped EXCEPT ![s] = TRUE]
    /\ subState' = [subState EXCEPT ![s] = AfterDispose(@)]
    /\ UNCHANGED <<published, observers, callVars, faulted, received, subAt,
                   disposals, lastPub, connVars, codecVars, writes, teamwork>>

\* train.py line 76, ops.map: the handler gets packet.msg of the next queued packet
MapOnNext(s) ==
    /\ ~faulted[s]
    /\ ~stopped[s]
    /\ queue[s] # <<>>
    /\ PacketMsg(Head(queue[s])).raised = "none"
    /\ received' = [received EXCEPT ![s] = Append(@, PacketMsg(Head(queue[s])))]
    /\ queue' = [queue EXCEPT ![s] = Tail(@)]
    /\ UNCHANGED <<published, observers, callVars, subState, faulted, subAt, stopped,
                   disposals, lastPub, connVars, codecVars, writes, teamwork>>

NextStream ==
    \/ \E p \in StreamPackets : Inbound(p)
    \/ \E s \in SubIds : Subscribe(s)
    \/ \E s \in SubIds : SubscribeRun(s)
    \/ \E s \in SubIds : MapOnNext(s)
    \/ \E s \in SubIds : MapOnError(s)
    \/ \E s \in SubIds : DisposeRun(s)
    \/ \E s \in SubIds : RunStopped(s)

SpecStream == Init /\ [][NextStream]_vars

\* ---- send_command and the writes stream ----

\* the packet of a send, as the writes Subject hands it on
Written(c) == [call |-> c, command |-> command[c]]

\* train_ble_device.py line 88-89: send_command awaits driver.send_command(data)
SendCommand(c, cmd) ==
    /\ pc[c] = "idle"
    /\ IF c = 1 THEN TRUE ELSE pc[c - 1] # "idle"
    /\ pc' = [pc EXCEPT ![c] = "sending"]
    /\ command' = [command EXCEPT ![c] = cmd]
    /\ UNCHANGED <<published, observers, future, rxTimer, wfTimer, skipped, setLog,
                   sendRaised, subVars, lastPub, connVars, codecVars, writes, teamwork>>

\* line 89-90: the driver's send returned; the packet goes to __writes.on_next
SendCommandDone(c) ==
    /\ pc[c] = "sending"
    /\ pc' = [pc EXCEPT ![c] = "sent"]
    /\ writes' = Append(writes, Written(c))
    /\ UNCHANGED <<published, observers, command, future, rxTimer, wfTimer, skipped,
                   setLog, sendRaised, subVars, lastPub, connVars, codecVars, teamwork>>

\* a failed send that is reported on writes all the same
SendCommandRaiseEmits(c) ==
    /\ pc[c] = "sending"
    /\ pc' = [pc EXCEPT ![c] = "transport_failure"]
    /\ sendRaised' = [sendRaised EXCEPT ![c] = TRUE]
    /\ writes' = Append(writes, Written(c))
    /\ UNCHANGED <<published, observers, command, future, rxTimer, wfTimer, skipped,
                   setLog, subVars, lastPub, connVars, codecVars, teamwork>>

\* line 89: the driver's send raised; the exception leaves send_command before line 90
SendCommandRaise(c) ==
    /\ pc[c] = "sending"
    /\ pc' = [pc EXCEPT ![c] = "transport_failure"]
    /\ sendRaised' = [sendRaised EXCEPT ![c] = TRUE]
    /\ UNCHANGED <<published, observers, command, future, rxTimer, wfTimer, skipped,
                   setLog, subVars, lastPub, connVars, codecVars, writes, teamwork>>

\* sends next to a connection that comes and goes and a bus with subscribers
NextWrites ==
    \/ \E c \in CallIds, cmd \in Commands : SendCommand(c, cmd)
    \/ \E c \in CallIds : SendCommandDone(c)
    \/ \E c \in CallIds : SendCommandRaise(c)
    \/ Inbound(MakePacket(CmdMac, 1, 1, 6))
    \/ Subscribe(101)
    \/ SubscribeRun(101)
    \/ ConnectStart(FALSE)
    \/ \E ans \in BOOLEAN : ConnectDone(ans)
    \/ DisconnectListener

SpecWrites == Init /\ [][NextWrites]_vars

\* ---- Train.set_next_split_steering_decision ----

\* a conversion that sends the modern code as it is
ConvertToOldSteeringDecisionSame(d) ==
    IF d \in {SteeringLeft, SteeringRight, SteeringStraight}
    THEN [raised |-> "none", value |-> d]
    ELSE [raised |-> "TrainCommandError", value |-> 0]

\* enums.py line 78-87: LEFT, RIGHT and STRAIGHT have a legacy code, every
\* other value raises TrainCommandError
ConvertToOldSteeringDecision(d) ==
    CASE d = SteeringLeft -> [raised |-> "none", value |-> OldSteeringLeft]
      [] d = SteeringRight -> [raised |-> "none", value |-> OldSteeringRight]
      [] d = SteeringStraight -> [raised |-> "none", value |-> OldSteeringCenter]
      [] OTHER -> [raised |-> "TrainCommandError", value |-> 0]

\* train.py line 195-204 with send_command (line 92-96): the conversion runs
\* first; its exception leaves the method before any packet is made; otherwise
\* the packet of from_command is handed to the device's send_command
SetNextSplitSteeringDecision(d) ==
    /\ call = NoCall
    /\ pc[1] = "idle"
    /\ call' = [op |-> "set_next_split_steering_decision", next_decision |-> d]
    /\ LET old == ConvertToOldSteeringDecision(d)
       IN /\ result' = [raised |-> old.raised]
          /\ IF old.raised = "none"
             THEN /\ packet' = FromCommandData(CmdSetSteering, <<old.value>>, <<>>)
                  /\ pc' = [pc EXCEPT ![1] = "sending"]
                  /\ command' = [command EXCEPT ![1] = CmdSetSteering]
             ELSE UNCHANGED <<packet, pc, command>>
    /\ UNCHANGED <<published, observers, future, rxTimer, wfTimer, skipped, setLog,
                   sendRaised, subVars, lastPub, connVars, decoded, writes, teamwork>>

\* one steering command next to a connection that comes and goes
NextSteer ==
    \/ \E d \in 0..SteeringAll : SetNextSplitSteeringDecision(d)
    \/ SendCommandDone(1)
    \/ SendCommandRaise(1)
    \/ ConnectStart(FALSE)
    \/ \E ans \in BOOLEAN : ConnectDone(ans)
    \/ DisconnectListener

SpecSteer == Init /\ [][NextSteer]_vars

\* the bus with subscribers that come and go
NextUnsub ==
    \/ \E cmd \in Commands : Publish(cmd)
    \/ \E s \in SubIds : Subscribe(s)
    \/ \E s \in SubIds : SubscribeRun(s)
    \/ \E s \in SubIds : HandlerOk(s)
    \/ \E s \in SubIds : HandlerDispose(s)
    \/ \E s \in SubIds : Dispose(s)
    \/ \E s \in SubIds : DisposeRun(s)
    \/ \E s \in SubIds : RunStopped(s)

SpecUnsub == Init /\ [][NextUnsub]_vars

\* SharedState.critical_section, each program's LocalState, the event loop's
\* ready queue, the trains on the track, and the trains that announced
\* OCCUPIED_BY for a color since the last FREE for it
critical_section == teamwork.critical_section
state == teamwork.state
ready == teamwork.ready
track == teamwork.track
announced == teamwork.announced

\* the train programs that have subscribed, in subscription order
Subscribed == SelectSeq([i \in 1..MaxTrains |-> i - 1], LAMBDA t : track[t].started)

\* Subject.on_next for the observers of the train programs: one task each
ToTrains(kind, m) == [i \in 1..Len(Subscribed) |-> Task(kind, Subscribed[i], m)]

\* the ready queue runs first in, first out
Running(kind) == ready # <<>> /\ Head(ready).kind = kind

\* collision_avoidance up to its wait for the exit event: the subscriptions
\* and drive_at_speed(35); the programs start in index order
CollisionAvoidance(t) ==
    /\ ~track[t].started
    /\ \A u \in Trains : u < t => track[u].started
    /\ teamwork' = [teamwork EXCEPT !.track[t].started = TRUE,
                                    !.track[t].inflight = <<Write(TRUE, NoMessage)>>]
    /\ UNCHANGED libVars

\* the transport finished a write: the train drives or stands, and a
\* coroutine that has more to do after its await is back on the ready queue
WriteDone(t) ==
    /\ track[t].inflight # <<>>
    /\ LET w == Head(track[t].inflight)
       IN teamwork' = [teamwork EXCEPT
                         !.track[t].driving = w.drive,
                         !.track[t].inflight = Tail(@),
                         !.ready = IF w.then = NoMessage THEN @
                                   ELSE Append(@, Task("resume", t, w.then))]
    /\ UNCHANGED libVars

\* the program is still dealing with the train: a write to it is under way
\* or a task of it or about it is on the ready queue
Busy(t) ==
    \/ track[t].inflight # <<>>
    \/ \E i \in 1..Len(ready) : ready[i].train = t \/ ready[i].msg.train_id = t

\* a driving train passes the snap at the entry or at the exit of a shared
\* section; the notification becomes a milestone task.  Tasks and writes
\* take far less time than a train needs from one snap to the next.
ColorChanged(t, c) ==
    /\ track[t].started
    /\ track[t].driving
    /\ ~Busy(t)
    /\ track[t].inside \in {{}, {c}}
    /\ teamwork' = [teamwork EXCEPT
                      !.track[t].inside = IF @ = {} THEN {c} ELSE {},
                      !.ready = Append(@, Task("milestone", t, Message(c, t, "color")))]
    /\ UNCHANGED libVars

\* -- v1 --

\* enter_section, collision_avoidance_1.py line 122-126: the update task of
\* the shared logic is created, no train program listens to OCCUPIED_BY
EnterSection(tw, t, c) ==
    [tw EXCEPT !.ready = Append(@, Task("update", NoTrain, Message(c, t, "OCCUPIED_BY"))),
               !.announced[c] = @ \cup {t},
               !.state[t].waiting[c] = FALSE]

\* collision_avoidance_1.py line 137-151 with leave_section and
\* wait_to_enter_section
Milestone1 ==
    /\ Running("milestone")
    /\ LET t == Head(ready).train
           c == Head(ready).msg.section_color
           tw == [teamwork EXCEPT !.ready = Tail(@)]
       IN teamwork' =
            IF c \notin DOMAIN critical_section THEN tw
            ELSE IF critical_section[c].state = "FREE" THEN EnterSection(tw, t, c)
            ELSE IF critical_section[c] = SectionInfo("OCCUPIED_BY", t)
            THEN [tw EXCEPT !.ready = Append(@, Task("update", NoTrain, Message(c, t, "FREE")))
                                        \o ToTrains("section_freed", Message(c, t, "FREE")),
                            !.announced[c] = {}]
            ELSE [tw EXCEPT !.state[t].waiting[c] = TRUE,
                            !.track[t].inflight = Append(@, Write(FALSE, NoMessage))]
    /\ UNCHANGED libVars

\* collision_avoidance_1.py line 104-105
UpdateCriticalSectionState ==
    /\ Running("update")
    /\ LET m == Head(ready).msg
       IN teamwork' = [teamwork EXCEPT
                         !.ready = Tail(@),
                         !.critical_section[m.section_color] = SectionInfo(m.what, m.train_id)]
    /\ UNCHANGED libVars

\* collision_avoidance_1.py line 153-156
SectionFreed ==
    /\ Running("section_freed")
    /\ LET t == Head(ready).train
           c == Head(ready).msg.section_color
           tw == [teamwork EXCEPT !.ready = Tail(@)]
       IN teamwork' =
            IF state[t].waiting[c]
            THEN [EnterSection(tw, t, c) EXCEPT !.track[t].inflight = Append(@, Write(TRUE, NoMessage))]
            ELSE tw
    /\ UNCHANGED libVars

NextTeam1 ==
    \/ \E t \in TwoTrains : CollisionAvoidance(t)
    \/ \E t \in TwoTrains : WriteDone(t)
    \/ \E t \in TwoTrains, c \in SectionColors : ColorChanged(t, c)
    \/ Milestone1
    \/ UpdateCriticalSectionState
    \/ SectionFreed

SpecTeam1 == Init /\ [][NextTeam1]_vars

\* -- v2 --

\* request_entry and request_leave, collision_avoidance_2.py line 182-186:
\* only the arbiter's subscription lets a MessageRequest pass
Request(tw, t, c, what) ==
    [tw EXCEPT !.ready = Append(@, Task("handle_request", NoTrain, Message(c, t, what)))]

\* the arbiter's on_next of a MessageResponse: only the train programs'
\* subscriptions let it pass
Respond(tw, m, what) ==
    [tw EXCEPT !.ready = @ \o ToTrains("handle_response", Message(m.section_color, m.train_id, what))]

\* collision_avoidance_2.py line 188-194
Milestone2 ==
    /\ Running("milestone")
    /\ LET t == Head(ready).train
           c == Head(ready).msg.section_color
           tw == [teamwork EXCEPT !.ready = Tail(@)]
       IN teamwork' =
            IF c \notin DOMAIN critical_section THEN tw
            ELSE IF state[t].section[c] = "NONE" THEN Request(tw, t, c, "ENTER")
            ELSE IF state[t].section[c] = "ENTERED" THEN Request(tw, t, c, "LEAVE")
            ELSE tw
    /\ UNCHANGED libVars

\* an arbiter that approves every ENTER request
HandleRequestApproveAll ==
    /\ Running("handle_request")
    /\ LET m == Head(ready).msg
           c == m.section_color
           tw == [teamwork EXCEPT !.ready = Tail(@)]
       IN teamwork' =
            IF m.what = "ENTER"
            THEN Respond([tw EXCEPT !.critical_section[c] = SectionInfo("OCCUPIED_BY", m.train_id)],
                         m, "ENTER_APPROVED")
            ELSE IF m.what = "LEAVE" /\ critical_section[c] = SectionInfo("OCCUPIED_BY", m.train_id)
            THEN Respond([tw EXCEPT !.critical_section[c] = SectionInfo("FREE", m.train_id)],
                         m, "SECTION_FREE")
            ELSE tw
    /\ UNCHANGED libVars

\* collision_avoidance_2.py line 127-165
HandleRequest ==
    /\ Running("handle_request")
    /\ LET m == Head(ready).msg
           c == m.section_color
           tw == [teamwork EXCEPT !.ready = Tail(@)]
       IN teamwork' =
            IF m.what = "ENTER"
            THEN IF critical_section[c].state = "FREE"
                 THEN Respond([tw EXCEPT !.critical_section[c] = SectionInfo("OCCUPIED_BY", m.train_id)],
                              m, "ENTER_APPROVED")
                 ELSE Respond(tw, m, "ENTER_REJECTED")
            ELSE IF m.what = "LEAVE" /\ critical_section[c] = SectionInfo("OCCUPIED_BY", m.train_id)
            THEN Respond([tw EXCEPT !.critical_section[c] = SectionInfo("FREE", m.train_id)],
                         m, "SECTION_FREE")
            ELSE tw
    /\ UNCHANGED libVars

\* section_enter and section_wait (line 196-204) up to the assignment: a
\* command is awaited first when the train has to start or to stop
SectionEnter(tw, t, c) ==
    IF tw.state[t].section[c] = "WAITING"
    THEN [tw EXCEPT !.track[t].inflight = Append(@, Write(TRUE, Message(c, t, "ENTERED")))]
    ELSE [tw EXCEPT !.state[t].section[c] = "ENTERED"]

SectionWait(tw, t, c) ==
    IF tw.state[t].section[c] # "WAITING"
    THEN [tw EXCEPT !.track[t].inflight = Append(@, Write(FALSE, Message(c, t, "WAITING")))]
    ELSE [tw EXCEPT !.state[t].section[c] = "WAITING"]

\* collision_avoidance_2.py line 209-223 with section_leave (line 206-207)
HandleResponse ==
    /\ Running("handle_response")
    /\ LET t == Head(ready).train
           m == Head(ready).msg
           c == m.section_color
           tw == [teamwork EXCEPT !.ready = Tail(@)]
       IN teamwork' =
            IF m.train_id = t
            THEN CASE m.what = "ENTER_APPROVED" -> SectionEnter(tw, t, c)
                   [] m.what = "ENTER_REJECTED" -> SectionWait(tw, t, c)
                   [] m.what = "SECTION_FREE" -> [tw EXCEPT !.state[t].section[c] = "NONE"]
                   [] OTHER -> tw
            ELSE IF m.what = "SECTION_FREE" /\ state[t].section[c] = "WAITING"
            THEN Request(tw, t, c, "ENTER")
            ELSE tw
    /\ UNCHANGED libVars

\* section_enter line 199 and section_wait line 204: the assignment after the
\* awaited command
Resume ==
    /\ Running("resume")
    /\ LET t == Head(ready).train
           m == Head(ready).msg
       IN teamwork' = [teamwork EXCEPT !.ready = Tail(@),
                                       !.state[t].section[m.section_color] = m.what]
    /\ UNCHANGED libVars

NextTeam2 ==
    \/ \E t \in Trains : CollisionAvoidance(t)
    \/ \E t \in Trains : WriteDone(t)
    \/ \E t \in Trains, c \in SectionColors : ColorChanged(t, c)
    \/ Milestone2
    \/ HandleRequest
    \/ HandleResponse
    \/ Resume

SpecTeam2 == Init /\ [][NextTeam2]_vars

\* the event loop runs the task at the head of its ready queue and the
\* transport finishes every write
RunTask2 == Milestone2 \/ HandleRequest \/ HandleResponse \/ Resume

SpecTeam2Fair ==
    /\ SpecTeam2
    /\ WF_vars(RunTask2)
    /\ \A t \in Trains : WF_vars(WriteDone(t))

TypeOK ==
    /\ \A c \in CallIds : rxTimer[c] \in {NoTimer} \cup (0..MaxTimeout)
    /\ published \in 0..MaxPackets
    /\ \A c \in CallIds : future[c].state \in {"PENDING", "FINISHED", "CANCELLED"}

\* ---- properties ----

Finished(c) == future[c].state = "FINISHED"
Pos(seq, x) == CHOOSE i \in 1..Len(seq) : seq[i] = x
Count(seq, x) == Cardinality({i \in 1..Len(seq) : seq[i] = x})
\* C1 (as claimed): of two calls for the same command id that are outstanding
\* at the same time, the one registered first resolves with an earlier packet
\* than the one registered second; they never resolve with the same packet.
C1_FifoPairing ==
    \A a, b \in CallIds :
        (a < b /\ command[a] = command[b] /\ Finished(a) /\ Finished(b))
        => future[a].result.n < future[b].result.n

\* C1 (amended): two calls for the same command id are resolved in registration
\* order and never swapped: the call registered first has its result set
\* before the call registered second, with the same or an earlier packet.
C1_RegistrationOrder ==
    \A a, b \in CallIds :
        (a < b /\ command[a] = command[b] /\ Finished(a) /\ Finished(b))
        => /\ Pos(setLog, a) < Pos(setLog, b)
           /\ future[a].result.n <= future[b].result.n

\* two outstanding calls for the same command id resolved with the same packet
C1_Witness ==
    \E a, b \in CallIds :
        /\ a < b /\ command[a] = command[b] /\ Finished(a) /\ Finished(b)
        /\ future[a].result.n = future[b].result.n

\* C2: every call that resolves does so with the first packet of its command
\* id published after its own listener was registered, whatever the other
\* calls do: no such packet was published earlier and left the call unresolved.
C2_NextMatchingPacket ==
    \A c \in CallIds : Finished(c) => ~skipped[c]

\* C3: a call raises its timeout error only if no packet with its command id
\* was published between the registration of its listener and the error; and
\* a call is only ever resolved by a packet with its own command id.
C3_MatchBeatsTimeout ==
    \A c \in CallIds :
        /\ pc[c] = "timeout" => ~skipped[c]
        /\ Finished(c) => future[c].result.command = command[c]

\* C4: once a call has failed with a timeout error its one-shot listener is no
\* longer registered on the bus.
C4_TimeoutUnsubscribes ==
    \A c \in CallIds : pc[c] = "timeout" => ~InSeq(observers, c)

\* C5: the result slot of a call is set at most once and never changes after
\* it was set or cancelled; a call that returned holds the packet that was
\* set, and a call that raised the timeout error never holds a result.
C5_ExactlyOnce ==
    /\ [](\A c \in CallIds :
            /\ Count(setLog, c) <= 1
            /\ Finished(c) <=> InSeq(setLog, c)
            /\ pc[c] = "returned" => Finished(c)
            /\ pc[c] = "timeout" => ~Finished(c))
    /\ [][\A c \in CallIds :
            /\ future[c].state # "PENDING" => future'[c] = future[c]
            /\ pc[c] \in {"returned", "timeout", "transport_failure", "cancelled"}
                 => pc'[c] = pc[c]]_vars

\* a call raised its timeout error and a later packet with its command id
\* reached its listener without setting the cancelled slot
C5_Witness ==
    \E c \in CallIds :
        /\ pc[c] = "timeout"
        /\ lastPub.raised = c
        /\ future[c] = [state |-> "CANCELLED", result |-> NoPacket]

\* C6: a call whose transport send raised has failed with the transport
\* failure: it never starts waiting for a packet or for the timeout.
C6_TransportFailureImmediate ==
    \A c \in CallIds :
        sendRaised[c] => pc[c] = "transport_failure"

\* a call failed with the transport failure while no matching packet had
\* arrived and its timeout had not elapsed
C6_Witness ==
    \E c \in CallIds :
        /\ sendRaised[c] /\ pc[c] = "transport_failure"
        /\ future[c].state = "PENDING"
        /\ rxTimer[c] > 0

\* C7: no listener of a call cancelled by its caller remains registered.
C7_CancelUnsubscribes ==
    \A c \in CallIds : pc[c] = "cancelled" => ~InSeq(observers, c)

\* C8: a packet with the call's command id published while the transport send
\* of the call is in progress resolves the call.
C8_ResolvedDuringSend ==
    [][\A c \in CallIds, cmd \in Commands :
         (pc[c] = "sending" /\ future[c].state = "PENDING"
            /\ published' = published + 1
            /\ cmd = command[c]
            /\ Publish(cmd))
         => future'[c] = [state |-> "FINISHED",
                          result |-> [n |-> published', command |-> cmd]]]_vars

\* C9: a published packet is delivered once to every listener that was
\* subscribed when it was published, in subscription order: the delivery loop
\* reaches every observer of the list.
C9_DeliveredToAll ==
    lastPub.missed = <<>>

\* C10: a failing handler neither fails the publisher nor keeps the packet
\* from another listener: every notifications subscriber registered at a
\* publication gets the packet in its queue.
C10_NoStall ==
    [][published' = published + 1
         => /\ lastPub'.raised = NoListener
            /\ \A s \in SubIds :
                 InSeq(observers, s) => queue'[s] = Append(queue[s], published')]_vars

\* the packets numbered a+1 .. b, in order
Range(a, b) == [i \in 1..(b - a) |-> a + i]

C12_NoReplay ==
    \A s \in SubIds :
        \A i \in 1..Len(received[s] \o queue[s]) :
            (received[s] \o queue[s])[i] > subAt[s]

\* a subscriber that joined after a packet was published has received a
\* later packet
C12_Witness ==
    \E s \in SubIds : subAt[s] > 0 /\ received[s] # <<>>

\* C14: once dispose was called the subscriber's handler is never invoked
\* again, so for no packet published afterwards; a repeated dispose changes
\* nothing of the bus; and neither a dispose nor the unsubscription it
\* schedules touches another subscriber.
C14_DisposeFinal ==
    [][\A s \in SubIds :
         /\ disposals[s] > 0 => received'[s] = received[s]
         /\ (disposals[s] > 0 /\ disposals'[s] # disposals[s])
              => UNCHANGED <<published, observers, subState, queue, received, stopped, writes>>
         /\ (disposals'[s] # disposals[s]
               \/ (subState[s] = "disposing" /\ subState'[s] = "disposed"))
              => \A o \in SubIds \ {s} :
                    /\ subState'[o] = subState[o]
                    /\ queue'[o] = queue[o]
                    /\ (InSeq(observers', o) <=> InSeq(observers, o))]_vars

\* a subscriber was disposed twice, a packet published while it was on the bus
\* was taken from its queue without reaching its handler, and another
\* subscriber's handler received that packet
C14_Witness ==
    \E s, o \in SubIds :
        /\ s # o
        /\ disposals[s] = 2 /\ subState[s] = "disposed"
        /\ queue[s] = <<>>
        /\ \E i \in 1..Len(received[o]) :
              /\ received[o][i] > subAt[s]
              /\ ~InSeq(received[s], received[o][i])
              /\ \E j \in 1..Len(received[s]) : received[s][j] < received[o][i]

\* ---- the connection state ----

\* line 26: the BehaviorSubject holds a bool; False is Disconnected, True is
\* Connected
ConnState == IF connection_status THEN "Connected" ELSE "Disconnected"

\* the connection status after the first i publications
ValueAt(i) == IF i = 0 THEN FALSE ELSE statusLog[i]

\* the status when the subscriber was added, then every value published since
Hist(s) == <<ValueAt(csAt[s])>> \o SubSeq(statusLog, csAt[s] + 1, Len(statusLog))

\* a sequence of states without its repetitions: the first state and every change
RECURSIVE Changes(_)
Changes(seq) ==
    IF Len(seq) <= 1 THEN seq
    ELSE IF seq[1] = seq[2] THEN Changes(Tail(seq))
    ELSE <<seq[1]>> \o Changes(Tail(seq))

IsPrefix(a, b) == Len(a) <= Len(b) /\ SubSeq(b, 1, Len(a)) = a

\* C13: what a connection_status subscriber is delivered starts with the
\* state current when it was added (Disconnected if nothing was published),
\* continues with every later change of state in order, and is complete once
\* its queue is empty.
C13_CurrentThenChanges ==
    \A s \in SubIds :
        csState[s] = "subscribed"
        => /\ IsPrefix(csDelivered[s], Changes(Hist(s)))
           /\ csQueue[s] = <<>> => csDelivered[s] = Changes(Hist(s))

\* a subscriber added while the state was Connected was delivered Connected
\* first and then the change to Disconnected
C13_Witness ==
    \E s \in SubIds :
        /\ csAt[s] > 0 /\ ValueAt(csAt[s]) = TRUE
        /\ csDelivered[s] = <<TRUE, FALSE>>

\* C15: no connection_status subscriber is delivered the same state twice in
\* succession, and a subscriber that has drained its queue was delivered one
\* state for the state it joined in and one for each publication that
\* differed from the publication before it.
C15_Deduplicated ==
    \A s \in SubIds :
        /\ \A i \in 1..(Len(csDelivered[s]) - 1) : csDelivered[s][i] # csDelivered[s][i + 1]
        /\ (csState[s] = "subscribed" /\ csQueue[s] = <<>>)
             => Len(csDelivered[s]) =
                  1 + Cardinality({i \in (csAt[s] + 1)..Len(statusLog) :
                                      statusLog[i] # ValueAt(i - 1)})

\* Connected was published twice in a row while a subscriber was subscribed,
\* and the subscriber, its queue drained, was delivered Connected once
C15_Witness ==
    \E s \in SubIds :
        /\ csState[s] = "subscribed" /\ csQueue[s] = <<>>
        /\ \E i \in (csAt[s] + 1)..(Len(statusLog) - 1) :
              /\ ValueAt(i - 1) = FALSE
              /\ statusLog[i] = TRUE /\ statusLog[i + 1] = TRUE
        /\ Count(csDelivered[s], TRUE) = 1

\* C16: a disconnect() that finishes while the state is Disconnected leaves
\* the state Disconnected and returns success, whatever the driver answered.
C16_DisconnectNoop ==
    [][\A ans \in BOOLEAN :
         (~connection_status /\ DisconnectDone(ans))
         => (~connection_status' /\ lastEvent'.ret = Ret(TRUE))]_vars

\* C17: while a connect() awaits the driver the connection state is
\* Connecting.
C17_ConnectingWhileInFlight ==
    connecting > 0 => ConnState = "Connecting"

\* state changes a subscriber's handler will still be invoked with
ToDeliver(s) ==
    Cardinality({i \in 1..Len(csQueue[s]) :
                   IF i = 1 THEN ~csKey[s].has \/ csKey[s].key # csQueue[s][1]
                   ELSE csQueue[s][i] # csQueue[s][i - 1]})

\* C18: whenever the driver's disconnect callback fires the state is
\* Disconnected afterwards, and every subscriber has one more state change to
\* be delivered if the state was Connected and none if it was Disconnected.
C18_ListenerForcesDisconnected ==
    [][DisconnectListener
       => /\ ~connection_status'
          /\ \A s \in SubIds :
                csState[s] = "subscribed"
                => ToDeliver(s)' = ToDeliver(s) + (IF connection_status THEN 1 ELSE 0)]_vars

\* the callback fired while a connect() was in flight and the state was
\* Connected, and a subscriber was delivered the change to Disconnected
C18_Witness ==
    /\ lastEvent.op = "listener"
    /\ connecting > 0
    /\ Len(statusLog) >= 2 /\ statusLog[Len(statusLog) - 1] = TRUE
    /\ \E s \in SubIds :
          /\ csState[s] = "subscribed" /\ csQueue[s] = <<>>
          /\ csAt[s] < Len(statusLog) - 1
          /\ Len(csDelivered[s]) >= 2
          /\ csDelivered[s][Len(csDelivered[s])] = FALSE

Room == Len(statusLog) < MaxStatus
SlotFree == connecting + disconnecting < MaxOps

\* C19: in every state the disconnect callback can fire and a disconnect()
\* can be started and can finish, and each leaves the state Disconnected when
\* the driver disconnected; in every Disconnected state a connect() can be
\* started and can finish, and leaves the state Connected when the driver
\* connected.
C19_NoTerminalState ==
    /\ [](Room => ENABLED DisconnectListener)
    /\ [](SlotFree => ENABLED DisconnectStart)
    /\ []((Room /\ disconnecting > 0) => ENABLED DisconnectDone(TRUE))
    /\ []((~connection_status /\ SlotFree) => ENABLED ConnectStart(FALSE))
    /\ []((Room /\ connecting > 0) => ENABLED ConnectDone(TRUE))
    /\ [][(DisconnectListener \/ DisconnectDone(TRUE)) => ~connection_status']_vars
    /\ [][ConnectDone(TRUE) => connection_status']_vars

\* the state went Connected, Disconnected and Connected again
C19_Witness ==
    /\ statusLog = <<TRUE, FALSE, TRUE>>
    /\ connection_status

\* ---- decoding ----

Variants ==
    {"TrainMsgUnknown", "TrainMsgMalformed", "TrainMsgMacAddress", "TrainMsgTrainUuid",
     "TrainMsgVersionDetail", "TrainMsgStatsLifetimeOdometer", "TrainMsgMovement",
     "TrainMsgEventUnknown", "TrainMsgEventMovementDirectionChanged",
     "TrainMsgEventLowBattery", "TrainMsgEventLowBatteryCutOff",
     "TrainMsgEventChargingStateChanged", "TrainMsgEventButtonPressDetected",
     "TrainMsgEventSnapCommandExecuted", "TrainMsgEventFrontColorChanged",
     "TrainMsgEventBackColorChanged", "TrainMsgEventSnapCommandDetected",
     "TrainMsgEventSplitDecision"}

\* C20: for every packet the msg property gives one message class and raises
\* nothing.
C20_DecodingTotal ==
    decoded # NotDecoded => (decoded.raised = "none" /\ decoded.variant \in Variants)

\* ---- short payloads and unknown ids ----

\* the command ids MessageBuilder.create has a parser for
ReservedIds == {CmdMac, CmdUuid, CmdVersion, CmdOdometer, CmdMovement, CmdEvent}

\* the event ids _create_event has a parser for
KnownEventIds == 1..10

\* the number of payload bytes the struct formats of a reserved command or of
\* an event need: the event header alone while it is incomplete or the event
\* id has no parser
LayoutSize(data) ==
    LET cmd == PacketCommand(data)
    IN CASE cmd = CmdMac -> 6
         [] cmd = CmdUuid -> 8
         [] cmd = CmdVersion -> 9
         [] cmd = CmdOdometer -> 4
         [] cmd = CmdMovement -> 18
         [] cmd = CmdEvent ->
              IF Len(PacketPayload(data)) < EVENT_PAYLOAD_OFFSET THEN EVENT_PAYLOAD_OFFSET
              ELSE IF PayloadByte(data, 0) \in {1, 4, 5} THEN EVENT_PAYLOAD_OFFSET + 1
              ELSE IF PayloadByte(data, 0) \in 6..10 THEN EVENT_PAYLOAD_OFFSET + 5
              ELSE EVENT_PAYLOAD_OFFSET

\* C21: a packet of a reserved command id (of any event id inside 0xE0) whose
\* payload is shorter than the layout of that command or event decodes to the
\* malformed message made from that packet, and nothing is raised.
C21_ShortIsMalformed ==
    (/\ decoded # NotDecoded
     /\ PacketCommand(packet) \in ReservedIds
     /\ Len(PacketPayload(packet)) < LayoutSize(packet))
    => decoded = [variant |-> "TrainMsgMalformed", raised |-> "none",
                  raw |-> packet, fields |-> NoFields]

\* a snap-executed event with a complete header and one colour byte missing
\* was decoded to the malformed message
C21_Witness ==
    /\ decoded.variant = "TrainMsgMalformed"
    /\ decoded.raw = packet
    /\ PacketCommand(packet) = CmdEvent
    /\ Len(PacketPayload(packet)) = EVENT_PAYLOAD_OFFSET + 4
    /\ PayloadByte(packet, 0) = 6

\* C22: a packet whose command id is not reserved decodes to the unknown
\* message, and an event packet with a complete header whose event id has no
\* parser decodes to the unknown-event message with the big-endian timestamp
\* of payload bytes 1-4; nothing is raised.
C22_UnknownIds ==
    decoded # NotDecoded =>
        /\ PacketCommand(packet) \notin ReservedIds
            => decoded = [variant |-> "TrainMsgUnknown", raised |-> "none",
                          raw |-> packet, fields |-> NoFields]
        /\ (/\ PacketCommand(packet) = CmdEvent
            /\ Len(PacketPayload(packet)) >= EVENT_PAYLOAD_OFFSET
            /\ PayloadByte(packet, 0) \notin KnownEventIds)
            => decoded =
                 [variant |-> "TrainMsgEventUnknown", raised |-> "none", raw |-> packet,
                  fields |-> [timestamp_ms |->
                     [hi |-> PayloadByte(packet, 1) * 256 + PayloadByte(packet, 2),
                      lo |-> PayloadByte(packet, 3) * 256 + PayloadByte(packet, 4)]]]

\* an event of id 11 with timestamp bytes 01 02 03 04 was decoded to the
\* unknown-event message with timestamp 0x01020304
C22_Witness ==
    /\ decoded.variant = "TrainMsgEventUnknown"
    /\ PayloadByte(packet, 0) = 11
    /\ SubSeq(PacketPayload(packet), 2, 5) = <<1, 2, 3, 4>>
    /\ decoded.fields.timestamp_ms = [hi |-> 258, lo |-> 772]

\* ---- the strict accessor ----

\* C23: get_interpreted_message(T) returns the decoded message when the packet
\* decodes to class T, and in every other case raises TrainMessageTypeError
\* and nothing else.
C23_StrictAccessor ==
    call.op = "get_interpreted_message" =>
        IF PacketMsg(call.packet).variant = call.msg_type
        THEN result = [raised |-> "none", returned |-> PacketMsg(call.packet)]
        ELSE result = [raised |-> "TrainMessageTypeError"]

\* ---- encoding ----

\* C24: for a command id in 0..255 and a payload of at most 253 bytes, the
\* packet made by from_command(id, payload) has command == id, payload equal
\* to the given bytes and a length byte equal to the payload length.
C24_RoundTrip ==
    (/\ call.op = "from_command"
     /\ call.command_id \in 0..255
     /\ \A i \in 1..Len(call.payload) : call.payload[i] \in 0..255
     /\ Len(call.payload) <= 253
     /\ call.length = <<>>)
    => /\ result.raised = "none"
       /\ Len(packet) = Len(call.payload) + 2
       /\ PacketCommand(packet) = call.command_id
       /\ PacketPayload(packet) = call.payload
       /\ packet[2] = Len(call.payload)

\* a MAC command with a payload of 253 bytes was encoded
C24_Witness ==
    /\ call.op = "from_command"
    /\ call.command_id = CmdMac
    /\ call.length = <<>>
    /\ Len(call.payload) = 253
    /\ Len(packet) = 255

\* C25: from_command with a command id outside 0..255 fails with an encoding
\* error and makes no packet.
C25_CommandIdChecked ==
    (call.op = "from_command" /\ call.command_id \notin 0..255)
    => (result.raised = "EncodingError" /\ packet = <<>>)

\* ---- movement status ----

\* the raw values of a movement payload, read big-endian at the offsets of
\* the layout
RawU16(data, i) == PayloadByte(data, i) * 256 + PayloadByte(data, i + 1)
RawU32(data, i) == [hi |-> RawU16(data, i), lo |-> RawU16(data, i + 2)]

\* the decoded odometer of a raw value: 0 for 0xFFFFFFFF, else the value over 100
MetersOf(raw) ==
    IF raw = [hi |-> 65535, lo |-> 65535] THEN [num |-> [hi |-> 0, lo |-> 0], den |-> 100]
    ELSE [num |-> raw, den |-> 100]

\* the field semantics of the movement message for the packet decoded
MovementSemantics ==
    /\ decoded.raw = packet
    /\ decoded.fields.direction = PayloadByte(packet, 0)
    /\ decoded.fields.speed_cmps = [num |-> RawU16(packet, 1), den |-> 10]
    /\ decoded.fields.pwm = 255 - PayloadByte(packet, 3)
    /\ decoded.fields.desired_speed_cmps = [num |-> RawU16(packet, 5), den |-> 10]
    /\ decoded.fields.pause_time_ms = PayloadByte(packet, 7) * 10
    /\ PayloadByte(packet, 8) = 0 => decoded.fields.next_split_decision = SteeringNone
    /\ PayloadByte(packet, 8) = 1 => decoded.fields.next_split_decision = SteeringLeft
    /\ PayloadByte(packet, 8) = 2 => decoded.fields.next_split_decision = SteeringRight
    /\ PayloadByte(packet, 8) = 3 => decoded.fields.next_split_decision = SteeringStraight
    /\ decoded.fields.lifetime_odometer_meters = MetersOf(RawU32(packet, 12))

\* the packet with direction 1, speed 350, pwm 55, desired speed 350, pause 0,
\* decision 3 and odometer 1000
SampleMovement == <<CmdMovement, 18, 1, 1, 94, 55, 1, 1, 94, 0, 3, 0, 0, 0, 0, 0, 3, 232, 0, 0>>

\* C26: every movement packet (0xB7) with a full-length payload decodes to the
\* movement message with pwm = 255 - raw, speeds = raw u16 / 10, pause = raw
\* * 10, the legacy decision mapped 0->NONE, 1->LEFT, 2->RIGHT, 3->STRAIGHT
\* and odometer = raw u32 / 100; the sample packet decodes to FORWARD, 35.0,
\* 200, 35.0, 0, STRAIGHT, 10.0.
C26_MovementDecoded ==
    (/\ decoded # NotDecoded
     /\ PacketCommand(packet) = CmdMovement
     /\ Len(PacketPayload(packet)) >= 18)
    => /\ decoded.variant = "TrainMsgMovement"
       /\ MovementSemantics
       /\ packet = SampleMovement =>
            /\ decoded.fields.direction = 1
            /\ decoded.fields.speed_cmps = [num |-> 350, den |-> 10]
            /\ decoded.fields.pwm = 200
            /\ decoded.fields.desired_speed_cmps = [num |-> 350, den |-> 10]
            /\ decoded.fields.pause_time_ms = 0
            /\ decoded.fields.next_split_decision = SteeringStraight
            /\ decoded.fields.lifetime_odometer_meters =
                 [num |-> [hi |-> 0, lo |-> 1000], den |-> 100]

\* ---- lifetime odometer ----

\* C27: in the odometer message (0x3E) and in the movement message (0xB7)
\* alike, a raw big-endian u32 of 0xFFFFFFFF decodes to 0 meters and every
\* other raw value r to r/100 meters.
C27_OdometerSentinel ==
    /\ decoded.variant = "TrainMsgStatsLifetimeOdometer"
        => decoded.fields.lifetime_odometer_meters = MetersOf(RawU32(packet, 0))
    /\ decoded.variant = "TrainMsgMovement"
        => decoded.fields.lifetime_odometer_meters = MetersOf(RawU32(packet, 12))

\* a movement packet whose odometer bytes are ff ff ff ff was decoded to 0 meters
C27_Witness ==
    /\ decoded.variant = "TrainMsgMovement"
    /\ SubSeq(PacketPayload(packet), 13, 16) = <<255, 255, 255, 255>>
    /\ decoded.fields.lifetime_odometer_meters.num = [hi |-> 0, lo |-> 0]

\* ---- snap colours ----

\* the colours BLACK..WHITE of SnapColorValue
LatticeColors == 0..7

\* C28: in snap-executed and snap-detected events each of the four colour
\* bytes is masked to its low three bits: for every byte value decoding raises
\* nothing and every decoded colour is one of BLACK..WHITE.
C28_ColorsMasked ==
    (/\ decoded # NotDecoded
     /\ PacketCommand(packet) = CmdEvent
     /\ Len(PacketPayload(packet)) >= EVENT_PAYLOAD_OFFSET + 5
     /\ PayloadByte(packet, 0) \in {6, 9})
    => /\ decoded.raised = "none"
       /\ decoded.variant \in {"TrainMsgEventSnapCommandExecuted", "TrainMsgEventSnapCommandDetected"}
       /\ \A i \in 1..4 :
            /\ decoded.fields.colors[i] \in LatticeColors
            /\ decoded.fields.colors[i] = PayloadByte(packet, EVENT_PAYLOAD_OFFSET + i) % 8

\* ---- snap commands ----

\* a tuple right-padded with BLACK to four colours
PadBlack(t) == t \o [i \in 1..(4 - Len(t)) |-> 0]

\* C29: for every snap command s and every tuple t of 0 to 4 colours, s == t
\* holds exactly when s equals t right-padded with BLACK to length 4, and
\* s.starts_with(t) holds whenever s == t; (WHITE, RED, BLACK, BLACK) equals
\* (WHITE, RED) and starts with it.
C29_PaddingRule ==
    /\ call.op = "__eq__" => (result.value <=> call.self = PadBlack(call.colors))
    /\ (call.op = "starts_with" /\ call.self = PadBlack(call.colors)) => result.value
    /\ (call.op \in {"__eq__", "starts_with"}
        /\ call.self = <<7, 1, 0, 0>> /\ call.colors = <<7, 1>>) => result.value

\* ---- hex text ----

\* a text with a character that is neither a hex digit nor the delimiter
HasNonHexToken(text) ==
    \E i \in 1..Len(text) : text[i] # ":" /\ \A d \in 1..16 : HexDigits[d] # text[i]

\* C30: for every packet p, from_hex_string(str(p)) is a packet with exactly
\* the bytes of p; a text with a non-hex token gives a format error and no
\* packet.
C30_HexRoundTrip ==
    call.op = "from_hex_string" =>
        /\ \A p \in HexPackets :
             call.data_string = HexString(p) => (result.raised = "none" /\ packet = p)
        /\ HasNonHexToken(call.data_string) => (result.raised = "ValueError" /\ packet = <<>>)

\* ---- packets after a call has completed ----

\* C31: a packet with the command id of a call that has completed (by timeout,
\* by cancellation or by a transport send failure) raises nothing inside the
\* publisher and reaches every notifications subscriber registered at its
\* publication.
C31_LatePacketHarmless ==
    [][\A c \in CallIds, cmd \in Commands :
         (/\ pc[c] \in {"timeout", "cancelled", "transport_failure"}
          /\ cmd = command[c]
          /\ published' = published + 1
          /\ Publish(cmd))
         => /\ lastPub'.raised = NoListener
            /\ lastPub'.missed = <<>>
            /\ \A s \in SubIds :
                 InSeq(observers, s) => queue'[s] = Append(queue[s], published')]_vars

\* C33: when a call fails because its transport send raised, its one-shot
\* listener is not registered on the bus at the moment the failure leaves the
\* call.
C33_SendFailureUnsubscribes ==
    [][\A c \in CallIds :
         (pc[c] = "sending" /\ pc'[c] = "transport_failure") => ~InSeq(observers', c)]_vars

\* ---- the message stream ----

\* C32: no inbound packet ends a subscriber's message stream: a subscriber
\* that has not unsubscribed is not stopped, and it has been handed a decoded
\* message, or holds queued the packet, for every packet published since it
\* was added to the bus.
C32_StreamSurvives ==
    \A s \in SubIds :
        subState[s] \notin {"none", "scheduled"}
        => /\ ~stopped[s]
           /\ subState[s] = "subscribed"
           /\ Len(received[s]) + Len(queue[s]) = published - subAt[s]
           /\ \A i \in 1..Len(received[s]) :
                received[s][i].raised = "none" /\ received[s][i].variant \in Variants

\* ---- the writes stream ----

\* C34: writes emits a packet exactly when its transport send completed
\* without error, at that moment and so in the order of completion; a send
\* that fails emits nothing and changes neither the connection state nor the
\* notification bus.
C34_WritesFollowSends ==
    /\ [](\A c \in CallIds :
            /\ pc[c] = "sent" <=> InSeq(writes, Written(c))
            /\ \A i, j \in 1..Len(writes) : writes[i].call = writes[j].call => i = j)
    /\ [][/\ \A c \in CallIds :
               (pc[c] = "sending" /\ pc'[c] = "sent") => writes' = Append(writes, Written(c))
          /\ (\A c \in CallIds : ~(pc[c] = "sending" /\ pc'[c] = "sent")) => writes' = writes
          /\ \A c \in CallIds :
               (pc[c] = "sending" /\ pc'[c] = "transport_failure")
               => /\ writes' = writes
                  /\ UNCHANGED <<connection_status, statusLog, published, observers,
                                 queue, subState>>]_vars

\* the second send completed and was emitted, the first send failed, while
\* the device was connected and a subscriber was on the bus
C34_Witness ==
    /\ pc = <<"transport_failure", "sent">>
    /\ writes = <<Written(2)>>
    /\ connection_status
    /\ observers # <<>>

\* ---- is_connected ----

\* C35: is_connected is false until a transport connect has succeeded, it
\* becomes true only by a connect() whose driver answered True, it is false
\* after a successful disconnect() and after the driver's disconnect callback,
\* and a connect() whose driver call raises leaves the state as it was.
C35_ConnectedOnlyAfterConnect ==
    /\ [](statusLog = <<>> => ~is_connected)
    /\ [][(~is_connected /\ is_connected') => ConnectDone(TRUE)]_vars
    /\ [][(DisconnectDone(TRUE) \/ DisconnectListener) => ~is_connected']_vars
    /\ [][ConnectRaise => UNCHANGED <<connection_status, statusLog, csQueue>>]_vars

\* C36: for a packet whose length byte equals its payload byte count,
\* make_hex_string(with_header=True, with_garbage=False) renders the two
\* header bytes followed by all payload bytes, and its payload part is
\* make_hex_string(with_header=False, with_garbage=False).
C36_HeaderAndDeclaredPayload ==
    (/\ call.op = "make_hex_string"
     /\ call.with_header /\ ~call.with_garbage
     /\ Len(call.data) >= 2
     /\ call.data[2] = Len(call.data) - 2)
    => /\ result.text = HexString(call.data)
       /\ result.text =
            Join(<<HexString(SubSeq(call.data, 1, 2))>>
                 \o (IF Len(call.data) = 2 THEN <<>>
                     ELSE <<MakeHexStringOf(call.data, FALSE, FALSE)>>), ":")

\* ---- steering decisions ----

\* C37: for LEFT, RIGHT and STRAIGHT the legacy code that
\* set_next_split_steering_decision sends maps back to the same decision under
\* the decoder's translation; for every other value the call raises
\* TrainCommandError, no packet reaches the transport and nothing is emitted
\* on writes.
C37_SteeringRoundTrip ==
    call.op = "set_next_split_steering_decision" =>
        IF call.next_decision \in {SteeringLeft, SteeringRight, SteeringStraight}
        THEN /\ result.raised = "none"
             /\ Len(packet) = 3
             /\ PacketCommand(packet) = CmdSetSteering
             /\ ConvertFromOldSteeringDecision(IntFlag(PayloadByte(packet, 0))) = call.next_decision
             /\ pc[1] = "sent" => writes = <<Written(1)>>
        ELSE /\ result.raised = "TrainCommandError"
             /\ packet = <<>>
             /\ pc[1] = "idle"
             /\ writes = <<>>

\* STRAIGHT was sent as the legacy code 3 (center) and emitted on writes
C37_Witness ==
    /\ call.op = "set_next_split_steering_decision"
    /\ call.next_decision = SteeringStraight
    /\ packet = <<CmdSetSteering, 1, OldSteeringCenter>>
    /\ pc[1] = "sent"
    /\ writes = <<Written(1)>>

\* ---- collision avoidance ----

\* C38: in v1 the two trains never both announce OCCUPIED_BY for the same
\* section color without a FREE for that color in between, whatever the
\* interleaving of the color-change handlers and the shared state's update
\* handler.
C38_OneTrainPerSection ==
    \A c \in SectionColors : Cardinality(announced[c]) <= 1

Entered(c) == {t \in Trains : state[t].section[c] = "ENTERED"}

\* the arbiter freed the section on the train's LEAVE and the train's
\* handle_response for that SECTION_FREE is still on the ready queue
LeaveUnderWay(t, c) ==
    \E i \in 1..Len(ready) : ready[i] = Task("handle_response", t, Message(c, t, "SECTION_FREE"))

Waiting(c) == {t \in Trains : state[t].section[c] = "WAITING"}

\* C40: in v2, under fair scheduling, a section that is free while trains are
\* WAITING for it is eventually occupied: the waiting trains re-request entry
\* on SECTION_FREE and the arbiter approves one of them.
C40_FreedSectionTaken ==
    \A c \in SectionColors :
        (critical_section[c].state = "FREE" /\ Waiting(c) # {})
            ~> (critical_section[c].state = "OCCUPIED_BY")

====
